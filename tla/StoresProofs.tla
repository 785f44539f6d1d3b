---------------------------- MODULE StoresProofs ----------------------------
(***************************************************************************)
(* The stores that several processes use at once, for any number of them.  *)
(*   WorkdirSweep   what keeps a sweep from a workdir in use is the lock   *)
(*                  on the lease while its server lives, the marker that   *)
(*                  is complete only once there is a sandbox to ask about, *)
(*                  and the server's process ID where there is no lease.   *)
(*   HostWallet     any number of servers that start at once spare the     *)
(*                  host's wallet. The lock file alone would do for "one   *)
(*                  at a time"; that nobody asks kwalletd6 after the       *)
(*                  marker was written needs both: only the holder of the  *)
(*                  slot can write it, and it stops asking when it does.   *)
(*   SessionWallet  the answers that a session's apps got still count for  *)
(*                  what they ask next, but for those given after a reload *)
(*                  saved the state.                                       *)
(*   LifecycleLog   rows that migrations move between two files and that   *)
(*                  rotations take out and write back are lost only to a   *)
(*                  kill in the middle of that, and whoever looks is not   *)
(*                  told less than what was recorded and is still there.   *)
(***************************************************************************)
EXTENDS Stores, DataInduction, Functions, Sequences

-----------------------------------------------------------------------------
(* The workdirs.                                                           *)

USE SweepAssumption

Ready   == {"leased", "overlaid", "spawned", "running"}
Closing == {"closing", "twinless", "unlinked"}
Over    == {"done", "dead"}

\* A sweeper holds the lock of the workdir it looks at, and in the first sweep only.
SweepersLocks ==
    /\ \A s \in Sweeper :
         kind[s] = "orphans" /\ at[s] \in {"locked", "twin", "lease", "dir"} => lock[on[s]] = s
    /\ \A s \in Sweeper : at[s] \in {"opened", "locked"} => kind[s] = "orphans"
    /\ \A s \in Sweeper : at[s] = "unleased" => kind[s] # "orphans"
    /\ \A s \in Sweeper, w \in Workdir :
         lock[w] = s => on[s] = w /\ at[s] \in {"locked", "twin", "lease", "dir"}
                                  /\ kind[s] = "orphans"

\* From its lease on the server holds the lock, until the workdir is gone or it died.
ServersLock ==
    \A w \in Workdir :
        /\ marker[w] = "group" => autoclean[w] /\ server[w] \in {"running"} \cup Closing \cup Over
        /\ autoclean[w] /\ server[w] \in Ready => lock[w] = "server"
        /\ marker[w] = "group" /\ server[w] \in Closing => lock[w] = "server"

\* What the sweepers established before they began to remove.
SweepsKnow ==
    \A s \in Sweeper :
        /\ kind[s] = "orphans" /\ at[s] \in {"twin", "lease", "dir"} =>
             marker[on[s]] = "group" /\ sandbox[on[s]] # "up" /\ server[on[s]] \in Over
        /\ kind[s] # "orphans" /\ at[s] \in {"twin", "lease", "dir"} => server[on[s]] = "dead"

\* A server creates its workdir before the twin and removes it after.
WorkdirFrames ==
    \A w \in Workdir :
        /\ server[w] = "absent" => ~dir[w] /\ ~twin[w]
        /\ server[w] \in {"created", "opened"} \cup Ready \cup Closing => dir[w]
        /\ server[w] \in {"twinless", "unlinked"} => autoclean[w] /\ ~twin[w]
        /\ server[w] = "done" /\ autoclean[w] => ~twin[w]
        /\ server[w] = "done" /\ ~autoclean[w] => dir[w]

SweepInv == TypeOK /\ SweepersLocks /\ ServersLock /\ SweepsKnow /\ WorkdirFrames

(* Every step of a server or of a sandbox keeps the invariant.             *)
LEMMA ServerStep ==
  ASSUME SweepInv, NEW w \in Workdir, ServerNext(w) \/ SandboxExits(w)
  PROVE  SweepInv'
<1> USE DEF SweepInv, TypeOK, SweepersLocks, ServersLock, SweepsKnow, WorkdirFrames, Ready, Closing, Over,
     ServerSteps, SweepSteps,
     ServerMoves, Unlock, sweepVars, serverVars, diskVars
<1>1. CASE CreateDir(w)
  BY <1>1 DEF CreateDir
<1>2. CASE CreateLease(w)
  BY <1>2 DEF CreateLease
<1>3. CASE LockLease(w)
  BY <1>3 DEF LockLease
<1>4. CASE LoseLease(w)
  BY <1>4 DEF LoseLease
<1>5. CASE CreateTwin(w)
  BY <1>5 DEF CreateTwin
<1>6. CASE SpawnSandbox(w)
  BY <1>6 DEF SpawnSandbox
<1>7. CASE MarkSandbox(w)
  BY <1>7 DEF MarkSandbox
<1>8. CASE Close(w)
  BY <1>8 DEF Close
<1>9. CASE RemoveTwin(w)
  BY <1>9 DEF RemoveTwin
<1>10. CASE KeepTwin(w)
  BY <1>10 DEF KeepTwin
<1>11. CASE UnlinkLease(w)
  BY <1>11 DEF UnlinkLease
<1>12. CASE RemoveDir(w)
  BY <1>12 DEF RemoveDir
<1>13. CASE Retain(w)
  BY <1>13 DEF Retain
<1>14. CASE ServerEnds(w)
  BY <1>14 DEF ServerEnds
<1>15. CASE SandboxExits(w)
  BY <1>15 DEF SandboxExits
<1>. QED
  BY <1>1, <1>2, <1>3, <1>4, <1>5, <1>6, <1>7, <1>8, <1>9, <1>10, <1>11, <1>12, <1>13, <1>14, <1>15 DEF ServerNext

(* Every step of a sweeper keeps the invariant.                            *)
LEMMA SweepStep ==
  ASSUME SweepInv, NEW s \in Sweeper, SweepNext(s)
  PROVE  SweepInv'
<1> USE DEF SweepInv, TypeOK, SweepersLocks, ServersLock, SweepsKnow, WorkdirFrames, Ready, Closing, Over,
     ServerSteps, SweepSteps,
     SweepMoves, Unlock, serverVars, diskVars
<1>1. CASE StartSweep(s)
  BY <1>1 DEF StartSweep, Orphaned, Leaked
<1>2. CASE List(s)
  BY <1>2 DEF List, Orphaned, Leaked
<1>3. CASE EndList(s)
  <2>1. TypeOK'
    BY <1>3 DEF EndList
  <2>2. SweepersLocks' /\ SweepsKnow'
    BY <1>3, <2>1 DEF EndList
  <2>3. ServersLock' /\ WorkdirFrames'
    BY <1>3 DEF EndList
  <2>. QED
    BY <2>1, <2>2, <2>3
<1>4. CASE EndSweep(s)
  BY <1>4 DEF EndSweep, Orphaned, Leaked
<1>5. ASSUME NEW w \in Workdir, Visit(s, w) PROVE SweepInv'
  BY <1>5 DEF Visit
<1>6. CASE TryLock(s)
  BY <1>6 DEF TryLock, Orphaned, Leaked
<1>7. CASE TakeOrphan(s)
  BY <1>7 DEF TakeOrphan, Orphaned, Leaked
<1>8. CASE TakeLeak(s)
  BY <1>8 DEF TakeLeak, Orphaned, Leaked
<1>9. CASE PassOver(s)
  BY <1>9 DEF PassOver, Orphaned, Leaked
<1>10. CASE SweepTwin(s)
  BY <1>10 DEF SweepTwin, Orphaned, Leaked
<1>11. CASE SweepLease(s)
  BY <1>11 DEF SweepLease, Orphaned, Leaked
<1>12. CASE SweepDir(s)
  BY <1>12 DEF SweepDir, Orphaned, Leaked
<1>13. CASE LeaveRest(s)
  BY <1>13 DEF LeaveRest, Orphaned, Leaked
<1>14. CASE SweeperKilled(s)
  BY <1>14 DEF SweeperKilled, Orphaned, Leaked
<1>. QED
  BY <1>1, <1>2, <1>3, <1>4, <1>5, <1>6, <1>7, <1>8, <1>9, <1>10, <1>11, <1>12, <1>13, <1>14 DEF SweepNext, SweepSteady

(* What a sweep found when it checked a workdir still holds when it        *)
(* removes it, however servers and other sweeps moved on meanwhile.        *)
THEOREM SweepInvariance == Spec => []SweepInv
<1>1. Init => SweepInv
  BY DEF Init, SweepInv, TypeOK, SweepersLocks, ServersLock, SweepsKnow, WorkdirFrames,
     Ready, Closing, Over, ServerSteps, SweepSteps
<1>2. SweepInv /\ [Next]_vars => SweepInv'
  <2> SUFFICES ASSUME SweepInv, [Next]_vars PROVE SweepInv'
    OBVIOUS
  <2>1. CASE UNCHANGED vars
    BY <2>1 DEF vars, serverVars, diskVars, sweepVars, SweepInv, TypeOK, SweepersLocks,
       ServersLock, SweepsKnow, WorkdirFrames
  <2>2. CASE \E w \in Workdir : ServerNext(w) \/ SandboxExits(w)
    BY <2>2, ServerStep
  <2>3. CASE \E s \in Sweeper : SweepNext(s)
    BY <2>3, SweepStep
  <2>. QED
    BY <2>1, <2>2, <2>3 DEF Next
<1>. QED
  BY <1>1, <1>2, PTL DEF Spec

(* No sweep touches a workdir whose server is still with it.               *)
THEOREM ServersKept == Spec => []ServersKeepTheirs
<1>1. SweepInv => ServersKeepTheirs
  BY DEF SweepInv, SweepsKnow, ServersKeepTheirs, Sweeping, Over
<1>. QED
  BY <1>1, SweepInvariance, PTL

(* The orphan sweep never removes a workdir under a sandbox: the marker it *)
(* read is complete and nothing can start one after its server is gone.    *)
THEOREM OrphansAreDead == Spec => []OrphansHaveNoSandbox
<1>1. SweepInv => OrphansHaveNoSandbox
  BY DEF SweepInv, SweepsKnow, OrphansHaveNoSandbox, Sweeping
<1>. QED
  BY <1>1, SweepInvariance, PTL

(* A twin without a workdir is nobody's: the order of creation and removal *)
(* leaves none behind while a server lives.                                *)
THEOREM LoneTwins == Spec => []LoneTwinsAreLeaked
<1>1. SweepInv => LoneTwinsAreLeaked
  BY DEF SweepInv, TypeOK, WorkdirFrames, LoneTwinsAreLeaked, ServerSteps, Ready, Closing
<1>. QED
  BY <1>1, SweepInvariance, PTL

-----------------------------------------------------------------------------
(* The slot for the host's wallet.                                         *)

Places == {"idle", "waiting", "spacing", "ended"} \cup Host!Reading

(* Whoever waits for its spacing or reads holds the lock file.             *)
SlotHeld == \A s \in Copiers : copying[s] \in {"spacing"} \cup Host!Reading => slot = s

MarkerHeeded == \A s \in Copiers : copying[s] \in Host!AskingKwalletd => unreachable # "fresh"

HostInv == copying \in [Copiers -> Places] /\ SlotHeld /\ MarkerHeeded

LEMMA HostStarts ==
  ASSUME Host!HostWalletAssumption, Host!Init
  PROVE  HostInv
  BY DEF Host!Init, HostInv, SlotHeld, MarkerHeeded, Places, Host!Reading, Host!AskingKwalletd, Host!AskingKsecretd

(* A server that ends, for whatever reason, lets go of the slot only if it *)
(* had it.                                                                 *)
LEMMA FinishKeepsSlot ==
  ASSUME Host!HostWalletAssumption, HostInv, NEW s \in Copiers, Host!Finish(s), unreachable' \in {unreachable, "none"}
  PROVE  HostInv'
<1> USE DEF HostInv, Host!Finish, Host!Release, Places
<1>1. SlotHeld'
  BY DEF SlotHeld, Host!Reading, Host!AskingKwalletd, Host!AskingKsecretd
<1>2. MarkerHeeded'
  BY DEF MarkerHeeded, Host!AskingKwalletd
<1> QED BY <1>1, <1>2

(* A server that only changes its own place keeps the invariant if it had  *)
(* the slot, or needs none.                                                *)
LEMMA StepKeepsSlot ==
  ASSUME Host!HostWalletAssumption, HostInv, NEW s \in Copiers, NEW from \in Places, NEW to \in Places,
         Host!Step(s, from, to), UNCHANGED <<slot, unreachable>>,
         to \in {"spacing"} \cup Host!Reading => from \in {"spacing"} \cup Host!Reading,
         to \in Host!AskingKwalletd => from \in Host!AskingKwalletd \/ unreachable # "fresh"
  PROVE  HostInv'
<1>1. SlotHeld'
  BY DEF HostInv, Host!Step, SlotHeld
<1>2. MarkerHeeded'
  BY DEF HostInv, Host!Step, MarkerHeeded
<1> QED BY <1>1, <1>2 DEF HostInv, Host!Step

LEMMA SnapshotKeepsSlot ==
  ASSUME Host!HostWalletAssumption, HostInv, NEW s \in Copiers, Host!Snapshot(s)
  PROVE  HostInv'
<1> USE DEF Places, Host!Reading, Host!AskingKwalletd, Host!AskingKsecretd
<1>1. CASE Host!Ask(s)
  BY <1>1, StepKeepsSlot DEF Host!Ask
<1>2. CASE Host!TakeSlot(s)
  <2>1. SlotHeld'
    BY <1>2 DEF Host!TakeSlot, Host!Step, HostInv, SlotHeld, Host!HostWalletAssumption
  <2>2. MarkerHeeded'
    BY <1>2 DEF Host!TakeSlot, Host!Step, HostInv, MarkerHeeded
  <2> QED BY <1>2, <2>1, <2>2 DEF Host!TakeSlot, Host!Step, HostInv
<1>3. CASE Host!SlotFails(s)
  BY <1>3, FinishKeepsSlot DEF Host!SlotFails
<1>4. CASE Host!Begin(s)
  <2>1. CASE s \in FromSecretService \/ unreachable = "fresh"
    BY <1>4, <2>1, StepKeepsSlot DEF Host!Begin
  <2>2. CASE ~(s \in FromSecretService \/ unreachable = "fresh")
    BY <1>4, <2>2, StepKeepsSlot DEF Host!Begin
  <2> QED BY <2>1, <2>2
<1>5. CASE Host!KwalletdRefuses(s)
  BY <1>5, FinishKeepsSlot DEF Host!KwalletdRefuses
<1>6. CASE Host!KwalletdUnlocked(s)
  BY <1>6, StepKeepsSlot DEF Host!KwalletdUnlocked
<1>7. CASE Host!KwalletdOpens(s)
  BY <1>7, StepKeepsSlot DEF Host!KwalletdOpens
<1>8. CASE Host!KwalletdCopied(s)
  BY <1>8, StepKeepsSlot DEF Host!KwalletdCopied
<1>9. CASE Host!KwalletdClosed(s)
  BY <1>9, FinishKeepsSlot DEF Host!KwalletdClosed
<1>10. CASE Host!KwalletdUnreachable(s)
  (* Nobody else asks kwalletd6: it would hold the slot too.               *)
  <2>1. \A t \in Copiers : copying[t] \in Host!AskingKwalletd => t = s
    BY <1>10 DEF Host!KwalletdUnreachable, HostInv, SlotHeld
  <2>2. SlotHeld'
    BY <1>10 DEF Host!KwalletdUnreachable, HostInv, SlotHeld
  <2>3. MarkerHeeded'
    BY <1>10, <2>1 DEF Host!KwalletdUnreachable, HostInv, MarkerHeeded
  <2> QED BY <1>10, <2>2, <2>3 DEF Host!KwalletdUnreachable, HostInv
<1>11. CASE Host!KsecretdFound(s)
  BY <1>11, StepKeepsSlot DEF Host!KsecretdFound
<1>12. CASE Host!KsecretdRead(s)
  BY <1>12, StepKeepsSlot DEF Host!KsecretdRead
<1>13. CASE Host!KsecretdLeft(s)
  BY <1>13, FinishKeepsSlot DEF Host!KsecretdLeft
<1>14. CASE Host!KsecretdRefuses(s)
  BY <1>14, FinishKeepsSlot DEF Host!KsecretdRefuses
<1> QED
  BY <1>1, <1>2, <1>3, <1>4, <1>5, <1>6, <1>7, <1>8, <1>9, <1>10, <1>11, <1>12,
     <1>13, <1>14 DEF Host!Snapshot

LEMMA HostStep ==
  ASSUME Host!HostWalletAssumption
  PROVE  HostInv /\ [Host!Next]_(Host!vars) => HostInv'
<1> SUFFICES ASSUME HostInv, [Host!Next]_(Host!vars) PROVE HostInv'
  OBVIOUS
<1>1. CASE \E s \in Copiers : Host!Snapshot(s)
  BY <1>1, SnapshotKeepsSlot
<1>2. CASE \E s \in Copiers : Host!BudgetSpent(s)
  BY <1>2, FinishKeepsSlot DEF Host!BudgetSpent
<1>3. CASE \E s \in Copiers : Host!Die(s)
  <2>1. PICK s \in Copiers : Host!Die(s)
    BY <1>3
  <2>2. SlotHeld'
    BY <2>1 DEF Host!Die, HostInv, SlotHeld, Host!Reading, Host!AskingKwalletd, Host!AskingKsecretd
  <2>3. MarkerHeeded'
    BY <2>1 DEF Host!Die, HostInv, MarkerHeeded, Host!AskingKwalletd
  <2> QED BY <2>1, <2>2, <2>3 DEF Host!Die, HostInv, Places
<1>4. CASE Host!Time /\ UNCHANGED <<copying, slot, Host!hostVars>>
  BY <1>4 DEF Host!Time, HostInv, SlotHeld, MarkerHeeded
<1>5. CASE Host!HostChanges /\ UNCHANGED <<copying, slot, spaced, unreachable>>
  BY <1>5 DEF HostInv, SlotHeld, MarkerHeeded
<1>6. CASE UNCHANGED Host!vars
  BY <1>6 DEF Host!vars, HostInv, SlotHeld, MarkerHeeded
<1> QED
  BY <1>1, <1>2, <1>3, <1>4, <1>5, <1>6 DEF Host!Next

(* However many servers there are, the host's wallet services are asked by *)
(* one at a time, and kwalletd6 by nobody while the marker is fresh        *)
(* (HostSlot and kwalletd_recently_unreachable).                           *)
THEOREM HostSpared ==
  ASSUME Host!HostWalletAssumption
  PROVE  Host!Spec => []HostIsSpared
<1>1. HostInv => HostIsSpared
  BY DEF HostInv, SlotHeld, MarkerHeeded, HostIsSpared, Host!HostIsSpared
<1> QED
  BY <1>1, HostStarts, HostStep, PTL DEF Host!Spec

-----------------------------------------------------------------------------
(* The wallet of a session.                                                *)

WalletTypeOK ==
  /\ wallet \in Nat /\ nextHandle \in Nat
  /\ stage \in [Calls -> {"new", "sent", "named", "replied", "lost"}]
  /\ ask \in [Calls -> Asks \cup {Wallet!NoAsk}]
  /\ reply \in [Calls -> [ok : BOOLEAN, value : Nat]]
  /\ settled \subseteq Calls /\ forgotten \subseteq Calls
  /\ before \in [Calls -> SUBSET Calls]

Saved == saved # Wallet!Nothing

(* What was answered stays answered, and a call knows of nothing else.     *)
AnsweredInv ==
  /\ \A c \in settled : stage[c] = "replied"
  /\ \A c \in Calls : stage[c] # "new" => before[c] \subseteq settled
  /\ \A c \in Calls : stage[c] = "new" => ask[c] = Wallet!NoAsk
  /\ Saved => saved[4] \subseteq settled

Opened(o)  == ask[o].op \in {"open", "openAsync"} /\ reply[o].ok
Written(w) == ask[w].op = "write" /\ reply[w].ok

(* A call closes the handle that o opened, or will.                        *)
ClosedFor(o) ==
  \E d \in Calls : ask[d].op = "close" /\ ask[d].handle = reply[o].value /\ ask[d].app = ask[o].app

(* The answers that a set of calls got hold in a state: the handles are    *)
(* their apps' and below the next one, and the changes are in the copy.    *)
Honours(w, hs, next, calls) ==
  \A c \in calls :
    /\ Opened(c) => /\ reply[c].value < next
                    /\ \/ reply[c].value \in DOMAIN hs /\ hs[reply[c].value] = ask[c].app
                       \/ ClosedFor(c)
    /\ Written(c) => reply[c].value <= w

Replied == {c \in Calls : stage[c] = "replied"}

(* The state honours every answer but those that a reload forgot, and the  *)
(* one that a reload saved those that it had given by then. A wallet that  *)
(* was disabled stays so.                                                  *)
PromiseInv ==
  /\ wallet # Wallet!Disabled => Honours(wallet, handles, nextHandle, Replied \ forgotten)
  /\ Saved => /\ saved = <<saved[1], saved[2], saved[3], saved[4]>>
              /\ saved[1] \in Nat /\ saved[3] \in Nat
              /\ saved[1] = Wallet!Disabled <=> wallet = Wallet!Disabled
              /\ saved[1] # Wallet!Disabled =>
                   Honours(saved[1], saved[2], saved[3], saved[4] \ forgotten)

WalletInv == WalletTypeOK /\ AnsweredInv /\ PromiseInv /\ Wallet!AnsweredCallsCount

LEMMA WalletStarts == ASSUME Wallet!Init PROVE WalletInv
<1>. USE DEF Wallet!Init, Wallet!Disabled, Wallet!Nothing, Wallet!NoAsk, Wallet!NoReply
<1>1. WalletTypeOK
  BY DEF WalletTypeOK
<1>2. AnsweredInv
  BY DEF AnsweredInv, Saved
<1>3. PromiseInv
  BY DEF PromiseInv, Honours, Replied, Saved
<1>4. Wallet!AnsweredCallsCount
  BY DEF Wallet!AnsweredCallsCount, Wallet!Served
<1>. QED
  BY <1>1, <1>2, <1>3, <1>4 DEF WalletInv

(* A call that is answered, with whatever result, changes itself only.     *)
LEMMA FinishChanges ==
  ASSUME WalletInv, NEW c \in Calls, stage[c] = "named", NEW ok \in BOOLEAN, NEW v \in Nat,
         Wallet!Finish(c, ok, v), wallet' \in Nat, nextHandle' \in Nat
  PROVE  /\ WalletTypeOK' /\ AnsweredInv'
         /\ UNCHANGED <<saved, ask, settled, before, forgotten>>
         /\ c \notin settled /\ before[c] \subseteq settled
         /\ stage'[c] = "replied" /\ reply'[c].ok = ok /\ reply'[c].value = v
         /\ \A d \in Calls \ {c} : stage'[d] = stage[d] /\ reply'[d] = reply[d]
<1>1. /\ stage' = [stage EXCEPT ![c] = "replied"]
      /\ reply' = [reply EXCEPT ![c] = [ok |-> ok, value |-> v]]
      /\ UNCHANGED <<saved, ask, settled, before, forgotten>>
  BY DEF Wallet!Finish
<1>2. WalletTypeOK'
  BY <1>1 DEF WalletInv, WalletTypeOK
<1>3. /\ stage'[c] = "replied" /\ reply'[c].ok = ok /\ reply'[c].value = v
      /\ \A d \in Calls \ {c} : stage'[d] = stage[d] /\ reply'[d] = reply[d]
  BY <1>1 DEF WalletInv, WalletTypeOK
<1>4. c \notin settled /\ before[c] \subseteq settled
  BY DEF WalletInv, AnsweredInv
<1>5. AnsweredInv'
  BY <1>1, <1>3, <1>4 DEF WalletInv, WalletTypeOK, AnsweredInv, Saved
<1>. QED
  BY <1>1, <1>2, <1>3, <1>4, <1>5

(* An answer keeps the promises of the others when the handles that they   *)
(* got stay their own, or are closed, and the copy loses nothing.          *)
LEMMA FinishKeepsPromises ==
  ASSUME WalletInv, NEW c \in Calls, stage[c] = "named", NEW ok \in BOOLEAN, NEW v \in Nat,
         Wallet!Finish(c, ok, v),
         wallet' \in Nat, wallet' >= wallet, nextHandle' \in Nat, nextHandle' >= nextHandle,
         wallet' = Wallet!Disabled <=> wallet = Wallet!Disabled,
         wallet # Wallet!Disabled =>
           \A h \in DOMAIN handles :
             \/ h \in DOMAIN handles' /\ handles'[h] = handles[h]
             \/ h >= nextHandle
             \/ ask[c].op = "close" /\ ask[c].handle = h /\ ask[c].app = handles[h],
         ask[c].op \in {"open", "openAsync"} /\ ok =>
           v < nextHandle' /\ v \in DOMAIN handles' /\ handles'[v] = ask[c].app,
         ask[c].op = "write" /\ ok => v <= wallet'
  PROVE  PromiseInv'
<1>1. /\ WalletTypeOK' /\ AnsweredInv' /\ UNCHANGED <<saved, ask, settled, before, forgotten>>
      /\ c \notin settled
      /\ stage'[c] = "replied" /\ reply'[c].ok = ok /\ reply'[c].value = v
      /\ \A d \in Calls \ {c} : stage'[d] = stage[d] /\ reply'[d] = reply[d]
  BY FinishChanges
<1>2. ASSUME wallet' # Wallet!Disabled, NEW o \in Calls \ forgotten, stage'[o] = "replied"
      PROVE  /\ Opened(o)' => /\ reply'[o].value < nextHandle'
                              /\ \/ /\ reply'[o].value \in DOMAIN handles'
                                    /\ handles'[reply'[o].value] = ask'[o].app
                                 \/ ClosedFor(o)'
             /\ Written(o)' => reply'[o].value <= wallet'
  <2>1. CASE o = c
    BY <1>1, <2>1 DEF Opened, Written
  <2>2. CASE o # c
    <3>1. /\ Opened(o) => /\ reply[o].value < nextHandle
                          /\ \/ /\ reply[o].value \in DOMAIN handles
                                /\ handles[reply[o].value] = ask[o].app
                             \/ ClosedFor(o)
          /\ Written(o) => reply[o].value <= wallet
      BY <1>1, <1>2, <2>2 DEF WalletInv, PromiseInv, Honours, Replied
    <3>2. (Opened(o)' <=> Opened(o)) /\ (Written(o)' <=> Written(o))
      BY <1>1, <2>2 DEF Opened, Written
    <3>3. /\ reply'[o] = reply[o] /\ reply[o].value \in Nat
      BY <1>1, <2>2 DEF WalletInv, WalletTypeOK
    <3>4. ClosedFor(o) => ClosedFor(o)'
      BY <1>1, <3>3 DEF ClosedFor
    <3>5. Written(o)' => reply'[o].value <= wallet'
      BY <3>1, <3>2, <3>3 DEF WalletInv, WalletTypeOK
    <3>6. ASSUME Opened(o), reply[o].value < nextHandle,
                 reply[o].value \in DOMAIN handles, handles[reply[o].value] = ask[o].app
          PROVE  \/ /\ reply'[o].value \in DOMAIN handles'
                    /\ handles'[reply'[o].value] = ask'[o].app
                 \/ ClosedFor(o)'
      <4>1. ~(reply[o].value >= nextHandle)
        BY <3>3, <3>6 DEF WalletInv, WalletTypeOK
      <4>2. CASE reply[o].value \in DOMAIN handles' /\ handles'[reply[o].value] = ask[o].app
        BY <1>1, <3>3, <4>2
      <4>3. CASE /\ ask[c].op = "close" /\ ask[c].handle = reply[o].value
                 /\ ask[c].app = handles[reply[o].value]
        BY <1>1, <3>3, <3>6, <4>3 DEF ClosedFor
      <4>. QED
        BY <1>2, <3>6, <4>1, <4>2, <4>3
    <3>7. Opened(o) => reply'[o].value < nextHandle'
      BY <3>1, <3>3 DEF WalletInv, WalletTypeOK
    <3>. QED
      BY <3>1, <3>2, <3>4, <3>5, <3>6, <3>7
  <2>. QED
    BY <2>1, <2>2
<1>3. wallet' # Wallet!Disabled => Honours(wallet, handles, nextHandle, Replied \ forgotten)'
  BY <1>1, <1>2 DEF Honours, Replied
<1>4. ASSUME Saved, saved[1] # Wallet!Disabled
      PROVE  Honours(saved[1], saved[2], saved[3], saved[4] \ forgotten)'
  <2>1. \A o \in saved[4] : o \in Calls /\ reply'[o] = reply[o]
    BY <1>1, <1>4 DEF WalletInv, WalletTypeOK, AnsweredInv
  <2>2. \A o \in saved[4] : ClosedFor(o)' <=> ClosedFor(o)
    BY <1>1, <2>1 DEF ClosedFor
  <2>3. \A o \in saved[4] : (Opened(o)' <=> Opened(o)) /\ (Written(o)' <=> Written(o))
    BY <1>1, <2>1 DEF Opened, Written
  <2>4. Honours(saved[1], saved[2], saved[3], saved[4] \ forgotten)
    BY <1>4 DEF WalletInv, PromiseInv
  <2>. QED
    BY <1>1, <2>1, <2>2, <2>3, <2>4 DEF Honours
<1>. QED
  BY <1>1, <1>3, <1>4 DEF WalletInv, PromiseInv, Saved

(* The answer to a read or write that finds the app's handle, or none to   *)
(* be found, is what the answers the app had before promise.               *)
LEMMA FinishAnswers ==
  ASSUME WalletInv, NEW c \in Calls, stage[c] = "named", NEW ok \in BOOLEAN, NEW v \in Nat,
         Wallet!Finish(c, ok, v), wallet' \in Nat, nextHandle' \in Nat,
         wallet' = Wallet!Disabled <=> wallet = Wallet!Disabled,
         ask[c].op \in {"read", "write"} =>
           /\ ok <=> Wallet!Owned(ask[c].handle, ask[c].app) /\ wallet # Wallet!Disabled
           /\ ok => v >= wallet
  PROVE  Wallet!AnsweredCallsCount'
<1>1. /\ WalletTypeOK' /\ AnsweredInv' /\ UNCHANGED <<saved, ask, settled, before, forgotten>>
      /\ c \notin settled /\ before[c] \subseteq settled
      /\ stage'[c] = "replied" /\ reply'[c].ok = ok /\ reply'[c].value = v
      /\ \A d \in Calls \ {c} : stage'[d] = stage[d] /\ reply'[d] = reply[d]
  BY FinishChanges
<1>2. \A d \in Calls : Wallet!Served(d) => before[d] \subseteq settled /\ c \notin before[d]
  BY <1>1 DEF WalletInv, AnsweredInv, Wallet!Served
<1>3. \A e, d \in Calls : Wallet!ClosesFor(e, d)' <=> Wallet!ClosesFor(e, d)
  BY <1>1 DEF Wallet!ClosesFor
<1>4. \A d \in Calls, o \in settled : Wallet!OpenedFor(d, o)' <=> Wallet!OpenedFor(d, o)
  BY <1>1 DEF WalletInv, WalletTypeOK, Wallet!OpenedFor
<1>5. ASSUME NEW d \in Calls \ {c}, Wallet!Served(d)', wallet' # Wallet!Disabled,
             NEW o \in before[d] \ forgotten
      PROVE  Wallet!Keeps(d, o)'
  <2>1. Wallet!Served(d)
    BY <1>1, <1>5 DEF Wallet!Served
  <2>2. o \in settled /\ o \in Calls /\ reply'[d] = reply[d] /\ reply'[o] = reply[o]
    BY <1>1, <1>2, <2>1, <1>5 DEF WalletInv, WalletTypeOK
  <2>3. Wallet!Keeps(d, o)
    BY <1>5, <2>1 DEF WalletInv, Wallet!AnsweredCallsCount
  <2>. QED
    BY <1>1, <1>3, <1>4, <2>2, <2>3 DEF Wallet!Keeps, Wallet!KeepsWrite
<1>6. ASSUME ask[c].op \in {"read", "write"}, wallet # Wallet!Disabled,
             NEW o \in before[c] \ forgotten
      PROVE  Wallet!Keeps(c, o)'
  <2>1. /\ o \in Calls /\ o \in Replied \ forgotten /\ reply'[o] = reply[o]
        /\ o \in settled
    BY <1>1, <1>6 DEF WalletInv, WalletTypeOK, AnsweredInv, Replied
  <2>2. Honours(wallet, handles, nextHandle, Replied \ forgotten)
    BY <1>6 DEF WalletInv, PromiseInv
  <2>3. ASSUME Wallet!OpenedFor(c, o)', ~(\E e \in Calls : Wallet!ClosesFor(e, c)')
        PROVE  ok
    <3>1. Wallet!OpenedFor(c, o) /\ ~(\E e \in Calls : Wallet!ClosesFor(e, c))
      BY <1>3, <1>4, <2>1, <2>3
    <3>2. Opened(o) /\ ~ClosedFor(o) /\ ask[c].handle = reply[o].value /\ ask[c].app = ask[o].app
      BY <3>1 DEF Wallet!OpenedFor, Wallet!ClosesFor, Opened, ClosedFor
    <3>3. Wallet!Owned(ask[c].handle, ask[c].app)
      BY <2>1, <2>2, <3>2 DEF Honours, Wallet!Owned
    <3>. QED
      BY <1>6, <3>3
  <2>4. ASSUME ask[o].op = "write", reply'[o].ok, ok
        PROVE  v >= reply'[o].value
    <3>1. reply[o].value <= wallet /\ reply[o].value \in Nat
      BY <2>1, <2>2, <2>4 DEF Honours, Written, WalletInv, WalletTypeOK
    <3>. QED
      BY <1>6, <2>1, <2>4, <3>1 DEF WalletInv, WalletTypeOK
  <2>. QED
    BY <1>1, <2>3, <2>4 DEF Wallet!Keeps, Wallet!KeepsWrite
<1>. QED
  BY <1>1, <1>5, <1>6 DEF Wallet!AnsweredCallsCount, Wallet!Served

LEMMA WalletCallStep ==
  ASSUME Wallet!SessionWalletAssumption, WalletInv, NEW c \in Calls,
         Wallet!Open(c) \/ Wallet!Close(c) \/ Wallet!Read(c) \/ Wallet!Write(c)
  PROVE  WalletInv'
<1>h. ask[c].handle \in Nat
  <2>1. \A k \in Asks \cup {Wallet!NoAsk} : k.handle \in Nat
    BY DEF Wallet!SessionWalletAssumption, Wallet!Handles, Wallet!NoAsk
  <2>. QED
    BY <2>1 DEF WalletInv, WalletTypeOK
<1>n. stage[c] = "named" /\ ask[c].handle \in Nat
  BY <1>h DEF Wallet!Open, Wallet!Close, Wallet!Read, Wallet!Write
<1>t. wallet \in Nat /\ nextHandle \in Nat /\ 0 \in Nat
  BY DEF WalletInv, WalletTypeOK
<1>1. CASE Wallet!Open(c)
  <2>1. /\ ask[c].op \in {"open", "openAsync"} /\ nextHandle' = nextHandle + 1
        /\ UNCHANGED wallet /\ Wallet!Finish(c, TRUE, nextHandle)
        /\ handles' = [h \in DOMAIN handles \cup {nextHandle} |->
                         IF h = nextHandle THEN ask[c].app ELSE handles[h]]
    BY <1>1 DEF Wallet!Open
  <2>2. /\ \A h \in DOMAIN handles : \/ h \in DOMAIN handles' /\ handles'[h] = handles[h]
                                     \/ h >= nextHandle
        /\ nextHandle \in DOMAIN handles' /\ handles'[nextHandle] = ask[c].app
    BY <1>t, <2>1
  <2>3. /\ TRUE \in BOOLEAN /\ wallet' \in Nat /\ wallet' >= wallet
        /\ nextHandle' \in Nat /\ nextHandle' >= nextHandle /\ nextHandle < nextHandle'
        /\ ask[c].op \notin {"close", "read", "write"}
    BY <1>t, <2>1
  <2>4. PromiseInv'
    BY <1>n, <1>t, <2>1, <2>2, <2>3, FinishKeepsPromises
  <2>5. Wallet!AnsweredCallsCount'
    BY <1>n, <1>t, <2>1, <2>3, FinishAnswers
  <2>. QED
    BY <1>n, <1>t, <2>1, <2>3, <2>4, <2>5, FinishChanges DEF WalletInv
<1>2. CASE Wallet!Close(c)
  <2>1. ask[c].op = "close" /\ UNCHANGED <<wallet, nextHandle>>
    BY <1>2 DEF Wallet!Close
  <2>2. PICK ok \in BOOLEAN : Wallet!Finish(c, ok, ask[c].handle)
    BY <1>2 DEF Wallet!Close
  <2>3. \A h \in DOMAIN handles :
          \/ h \in DOMAIN handles' /\ handles'[h] = handles[h]
          \/ ask[c].handle = h /\ ask[c].app = handles[h]
    <3>1. CASE UNCHANGED handles
      BY <3>1
    <3>2. CASE /\ Wallet!Owned(ask[c].handle, ask[c].app)
               /\ handles' = [k \in DOMAIN handles \ {ask[c].handle} |-> handles[k]]
      BY <3>2 DEF Wallet!Owned
    <3>. QED
      BY <1>2, <3>1, <3>2 DEF Wallet!Close
  <2>4. PromiseInv'
    BY <1>n, <1>t, <2>1, <2>2, <2>3, FinishKeepsPromises
  <2>. QED
    BY <1>n, <1>t, <2>1, <2>2, <2>4, FinishChanges, FinishAnswers DEF WalletInv
<1>3. CASE Wallet!Read(c)
  <2>1. ask[c].op = "read" /\ UNCHANGED <<wallet, handles, nextHandle>>
    BY <1>3 DEF Wallet!Read, Wallet!stateVars
  <2>2. PICK ok \in BOOLEAN, v \in Nat :
          /\ Wallet!Finish(c, ok, v)
          /\ ok <=> Wallet!Owned(ask[c].handle, ask[c].app) /\ wallet # Wallet!Disabled
          /\ ok => v = wallet
    <3>1. CASE Wallet!Owned(ask[c].handle, ask[c].app) /\ wallet # Wallet!Disabled
      BY <1>3, <1>t, <3>1 DEF Wallet!Read
    <3>2. CASE ~(Wallet!Owned(ask[c].handle, ask[c].app) /\ wallet # Wallet!Disabled)
      BY <1>3, <1>t, <3>2 DEF Wallet!Read
    <3>. QED
      BY <3>1, <3>2
  <2>3. v >= wallet \/ ~ok
    BY <1>t, <2>2
  <2>4. PromiseInv'
    BY <1>n, <1>t, <2>1, <2>2, FinishKeepsPromises
  <2>5. Wallet!AnsweredCallsCount'
    BY <1>n, <1>t, <2>1, <2>2, <2>3, FinishAnswers
  <2>. QED
    BY <1>n, <1>t, <2>1, <2>2, <2>4, <2>5, FinishChanges DEF WalletInv
<1>4. CASE Wallet!Write(c)
  <2>1. ask[c].op = "write" /\ UNCHANGED <<handles, nextHandle>>
    BY <1>4 DEF Wallet!Write
  <2>2. PICK ok \in BOOLEAN, v \in Nat :
          /\ Wallet!Finish(c, ok, v)
          /\ ok <=> Wallet!Owned(ask[c].handle, ask[c].app) /\ wallet # Wallet!Disabled
          /\ wallet' = IF ok THEN wallet + 1 ELSE wallet
          /\ ok => v = wallet + 1
    <3>1. CASE Wallet!Owned(ask[c].handle, ask[c].app) /\ wallet # Wallet!Disabled
      <4>1. wallet' = wallet + 1 /\ Wallet!Finish(c, TRUE, wallet + 1)
        BY <1>4, <3>1, Zenon DEF Wallet!Write
      <4>2. wallet + 1 \in Nat
        BY <1>t
      <4>. QED
        BY <3>1, <4>1, <4>2
    <3>2. CASE ~(Wallet!Owned(ask[c].handle, ask[c].app) /\ wallet # Wallet!Disabled)
      BY <1>4, <1>t, <3>2 DEF Wallet!Write
    <3>. QED
      BY <3>1, <3>2
  <2>3. /\ wallet' \in Nat /\ wallet' >= wallet
        /\ wallet' = Wallet!Disabled <=> wallet = Wallet!Disabled
        /\ ok => v >= wallet /\ v <= wallet'
    BY <1>t, <2>2 DEF Wallet!Disabled
  <2>4. PromiseInv'
    BY <1>n, <1>t, <2>1, <2>2, <2>3, FinishKeepsPromises
  <2>5. Wallet!AnsweredCallsCount'
    BY <1>n, <1>t, <2>1, <2>2, <2>3, FinishAnswers
  <2>. QED
    BY <1>n, <1>t, <2>1, <2>2, <2>3, <2>4, <2>5, FinishChanges DEF WalletInv
<1>. QED
  BY <1>1, <1>2, <1>3, <1>4

(* While no call is answered, the answers of before stand.                 *)
LEMMA AnswersStand ==
  ASSUME WalletInv, UNCHANGED <<reply>>,
         \A d \in Calls : stage[d] # "new" => ask'[d] = ask[d]
  PROVE  \A o \in Calls : stage[o] # "new" =>
           /\ reply'[o] = reply[o] /\ ask'[o] = ask[o]
           /\ Opened(o)' <=> Opened(o)
           /\ Written(o)' <=> Written(o)
           /\ ClosedFor(o) => ClosedFor(o)'
<1>1. \A d \in Calls : stage[d] = "new" => ask[d].op = "none"
  BY DEF WalletInv, AnsweredInv, Wallet!NoAsk
<1>2. ASSUME NEW o \in Calls, stage[o] # "new", ClosedFor(o)
      PROVE  ClosedFor(o)'
  BY <1>1, <1>2 DEF ClosedFor
<1>. QED
  BY <1>2 DEF Opened, Written

LEMMA ServedStay ==
  ASSUME WalletInv, UNCHANGED <<reply>>, forgotten \subseteq forgotten',
         \A d \in Calls : stage[d] # "new" => ask'[d] = ask[d] /\ before'[d] = before[d],
         wallet' # Wallet!Disabled =>
           wallet # Wallet!Disabled /\ \A d \in Calls : stage'[d] = "replied" => stage[d] = "replied"
  PROVE  Wallet!AnsweredCallsCount'
<1> SUFFICES ASSUME NEW c \in Calls, Wallet!Served(c)', wallet' # Wallet!Disabled,
                    NEW o \in before'[c] \ forgotten'
             PROVE  Wallet!Keeps(c, o)'
  BY DEF Wallet!AnsweredCallsCount
<1>1. Wallet!Served(c) /\ stage[c] # "new" /\ ask'[c] = ask[c] /\ before'[c] = before[c]
  BY DEF Wallet!Served
<1>2. o \in Calls /\ stage[o] # "new" /\ ask'[o] = ask[o] /\ o \in before[c] \ forgotten
  BY <1>1 DEF WalletInv, WalletTypeOK, AnsweredInv, Wallet!Served
<1>3. \A d \in Calls : stage[d] = "new" => ask[d].op = "none"
  BY DEF WalletInv, AnsweredInv, Wallet!NoAsk
<1>4. \A d \in Calls : Wallet!ClosesFor(d, c) => Wallet!ClosesFor(d, c)'
  BY <1>1, <1>3 DEF Wallet!ClosesFor
<1>5. Wallet!OpenedFor(c, o)' <=> Wallet!OpenedFor(c, o)
  BY <1>1, <1>2 DEF Wallet!OpenedFor
<1>6. Wallet!Keeps(c, o)
  BY <1>1, <1>2 DEF WalletInv, Wallet!AnsweredCallsCount
<1>. QED
  BY <1>1, <1>2, <1>4, <1>5, <1>6 DEF Wallet!Keeps, Wallet!KeepsWrite

LEMMA WalletStep ==
  ASSUME Wallet!SessionWalletAssumption, WalletInv, [Wallet!Next]_(Wallet!vars)
  PROVE  WalletInv'
<1> USE DEF Wallet!stateVars
<1>1. ASSUME NEW c \in Calls, Wallet!Send(c)
      PROVE  WalletInv'
  <2>1. PICK k \in Asks : ask' = [ask EXCEPT ![c] = k]
    BY <1>1 DEF Wallet!Send
  <2>2. /\ stage[c] = "new" /\ stage' = [stage EXCEPT ![c] = "sent"]
        /\ before' = [before EXCEPT ![c] = settled]
        /\ UNCHANGED <<wallet, handles, nextHandle, saved, reply, settled, forgotten>>
    BY <1>1 DEF Wallet!Send
  <2>3. WalletTypeOK'
    BY <2>1, <2>2 DEF WalletInv, WalletTypeOK
  <2>4. /\ stage'[c] = "sent" /\ before'[c] = settled
        /\ \A d \in Calls \ {c} : /\ stage'[d] = stage[d] /\ before'[d] = before[d]
                                  /\ ask'[d] = ask[d]
    BY <2>1, <2>2 DEF WalletInv, WalletTypeOK
  <2>5. c \notin settled /\ (Saved => c \notin saved[4] /\ saved[4] \subseteq Calls)
    BY <2>2 DEF WalletInv, WalletTypeOK, AnsweredInv
  <2>6. AnsweredInv'
    BY <2>2, <2>4, <2>5 DEF WalletInv, WalletTypeOK, AnsweredInv, Saved
  <2>7. PromiseInv'
    <3>1. \A o \in Calls : stage[o] # "new" =>
            /\ reply'[o] = reply[o] /\ ask'[o] = ask[o]
            /\ Opened(o)' <=> Opened(o)
            /\ Written(o)' <=> Written(o)
            /\ ClosedFor(o) => ClosedFor(o)'
      BY <2>2, <2>4, AnswersStand
    <3>2. Replied' = Replied /\ \A o \in Replied : o \in Calls /\ stage[o] # "new"
      BY <2>2, <2>4 DEF Replied
    <3>3. Saved => \A o \in saved[4] : o \in Calls /\ stage[o] # "new"
      BY DEF WalletInv, WalletTypeOK, AnsweredInv
    <3>. QED
      BY <2>2, <3>1, <3>2, <3>3 DEF WalletInv, PromiseInv, Honours, Saved
  <2>8. Wallet!AnsweredCallsCount'
    BY <2>2, <2>4, ServedStay DEF WalletInv
  <2>. QED
    BY <2>3, <2>6, <2>7, <2>8 DEF WalletInv
<1>2. ASSUME NEW c \in Calls, Wallet!FindName(c)
      PROVE  WalletInv'
  <2>1. /\ stage[c] = "sent"
        /\ stage' = [stage EXCEPT ![c] = IF wallet = Wallet!Disabled THEN "replied" ELSE "named"]
        /\ UNCHANGED <<wallet, handles, nextHandle, saved, ask, reply, settled, before, forgotten>>
    BY <1>2 DEF Wallet!FindName
  <2>2. WalletTypeOK'
    BY <2>1 DEF WalletInv, WalletTypeOK
  <2>3. /\ stage'[c] \in {"replied", "named"} /\ (wallet # Wallet!Disabled => stage'[c] = "named")
        /\ \A d \in Calls \ {c} : stage'[d] = stage[d]
    BY <2>1 DEF WalletInv, WalletTypeOK
  <2>4. AnsweredInv'
    BY <2>1, <2>3 DEF WalletInv, WalletTypeOK, AnsweredInv, Saved
  <2>5. PromiseInv'
    BY <2>1, <2>3 DEF WalletInv, PromiseInv, Honours, Replied, Saved, Opened, Written, ClosedFor
  <2>6. Wallet!AnsweredCallsCount'
    BY <2>1, <2>3, ServedStay
  <2>. QED
    BY <2>2, <2>4, <2>5, <2>6 DEF WalletInv
<1>3. ASSUME NEW c \in Calls, Wallet!Answer(c)
      PROVE  WalletInv'
  <2>1. /\ stage[c] = "replied" /\ settled' = settled \cup {c}
        /\ UNCHANGED <<wallet, handles, nextHandle, saved, stage, ask, reply, before, forgotten>>
    BY <1>3 DEF Wallet!Answer
  <2>2. WalletTypeOK' /\ AnsweredInv'
    BY <2>1 DEF WalletInv, WalletTypeOK, AnsweredInv, Saved
  <2>3. PromiseInv'
    BY <2>1 DEF WalletInv, PromiseInv, Honours, Replied, Saved, Opened, Written, ClosedFor
  <2>4. Wallet!AnsweredCallsCount'
    BY <2>1, ServedStay
  <2>. QED
    BY <2>2, <2>3, <2>4 DEF WalletInv
<1>4. ASSUME Wallet!SaveState
      PROVE  WalletInv'
  <2>1. /\ saved' = <<wallet, handles, nextHandle, settled>>
        /\ UNCHANGED <<wallet, handles, nextHandle, stage, ask, reply, settled, before, forgotten>>
    BY <1>4 DEF Wallet!SaveState
  <2>2. WalletTypeOK' /\ AnsweredInv'
    BY <2>1 DEF WalletInv, WalletTypeOK, AnsweredInv, Saved
  <2>3. settled \ forgotten \subseteq Replied \ forgotten
    BY DEF WalletInv, WalletTypeOK, AnsweredInv, Replied
  <2>4. \A o \in Calls : /\ Opened(o)' <=> Opened(o)
                         /\ Written(o)' <=> Written(o)
                         /\ ClosedFor(o)' <=> ClosedFor(o)
    BY <2>1 DEF Opened, Written, ClosedFor
  <2>5. PromiseInv'
    <3>1. Replied' = Replied /\ Replied \subseteq Calls
      BY <2>1 DEF Replied
    <3>2. wallet # Wallet!Disabled =>
            /\ Honours(wallet, handles, nextHandle, Replied \ forgotten)'
            /\ Honours(wallet, handles, nextHandle, settled \ forgotten)'
      BY <2>1, <2>3, <2>4, <3>1 DEF WalletInv, PromiseInv, Honours
    <3>. QED
      BY <2>1, <3>2 DEF WalletInv, WalletTypeOK, PromiseInv, Honours
  <2>6. Wallet!AnsweredCallsCount'
    BY <2>1, ServedStay
  <2>. QED
    BY <2>2, <2>5, <2>6 DEF WalletInv
<1>5. ASSUME Wallet!StartState
      PROVE  WalletInv'
  <2>1. /\ Saved /\ ~Saved'
        /\ wallet' = saved[1] /\ handles' = saved[2] /\ nextHandle' = saved[3]
        /\ forgotten' = forgotten \cup (settled \ saved[4])
        /\ stage' = [c \in Calls |-> IF stage[c] = "new" \/ c \in settled
                                     THEN stage[c] ELSE "lost"]
        /\ UNCHANGED <<ask, reply, settled, before>>
    BY <1>5 DEF Wallet!StartState, Wallet!ReplaceImage, Saved
  <2>2. /\ saved[1] \in Nat /\ saved[3] \in Nat /\ settled \subseteq Calls
        /\ \A c \in settled : stage[c] = "replied"
    BY <2>1 DEF WalletInv, WalletTypeOK, AnsweredInv, PromiseInv
  <2>3. WalletTypeOK'
    BY <2>1, <2>2 DEF WalletInv, WalletTypeOK
  <2>4. \A c \in Calls : \/ stage'[c] = "new" /\ stage[c] = "new"
                         \/ stage'[c] = "replied" /\ c \in settled /\ stage[c] = "replied"
                         \/ stage'[c] = "lost" /\ stage[c] # "new"
    BY <2>1, <2>2
  <2>5. AnsweredInv'
    BY <2>1, <2>2, <2>4 DEF WalletInv, WalletTypeOK, AnsweredInv
  <2>6. PromiseInv'
    <3>1. saved[1] # Wallet!Disabled =>
            Honours(saved[1], saved[2], saved[3], saved[4] \ forgotten)
      BY <2>1 DEF WalletInv, PromiseInv
    <3>2. Replied' \ forgotten' \subseteq saved[4] \ forgotten
      BY <2>1, <2>4 DEF Replied
    <3>. QED
      BY <2>1, <3>1, <3>2 DEF PromiseInv, Honours, Opened, Written, ClosedFor
  <2>7. Wallet!AnsweredCallsCount'
    BY <2>1, <2>4, ServedStay DEF WalletInv, PromiseInv
  <2>. QED
    BY <2>3, <2>5, <2>6, <2>7 DEF WalletInv
<1>6. ASSUME Wallet!Shutdown
      PROVE  WalletInv'
  <2>1. /\ wallet' = Wallet!Disabled /\ nextHandle' = 0 /\ ~Saved
        /\ UNCHANGED <<saved, stage, ask, reply, settled, before, forgotten>>
    BY <1>6 DEF Wallet!Shutdown, Saved
  <2>2. WalletTypeOK' /\ AnsweredInv'
    BY <2>1 DEF WalletInv, WalletTypeOK, AnsweredInv, Saved, Wallet!Disabled
  <2>3. PromiseInv' /\ Wallet!AnsweredCallsCount'
    BY <2>1 DEF PromiseInv, Saved, Wallet!AnsweredCallsCount
  <2>. QED
    BY <2>2, <2>3 DEF WalletInv
<1>7. ASSUME Wallet!ExecFails
      PROVE  WalletInv'
  <2>1. /\ ~Saved'
        /\ UNCHANGED <<wallet, handles, nextHandle, stage, ask, reply, settled, before, forgotten>>
    BY <1>7 DEF Wallet!ExecFails, Saved
  <2>2. WalletTypeOK' /\ AnsweredInv'
    BY <2>1 DEF WalletInv, WalletTypeOK, AnsweredInv
  <2>3. PromiseInv'
    BY <2>1 DEF WalletInv, PromiseInv, Honours, Replied, Opened, Written, ClosedFor
  <2>4. Wallet!AnsweredCallsCount'
    BY <2>1, ServedStay
  <2>. QED
    BY <2>2, <2>3, <2>4 DEF WalletInv
<1>8. CASE UNCHANGED Wallet!vars
  <2>1. WalletTypeOK' /\ AnsweredInv'
    BY <1>8 DEF Wallet!vars, WalletInv, WalletTypeOK, AnsweredInv, Saved
  <2>2. PromiseInv'
    BY <1>8 DEF Wallet!vars, WalletInv, PromiseInv, Honours, Replied, Saved, Opened, Written,
       ClosedFor
  <2>3. Wallet!AnsweredCallsCount'
    BY <1>8, ServedStay DEF Wallet!vars
  <2>. QED
    BY <2>1, <2>2, <2>3 DEF WalletInv
<1>. QED
  BY <1>1, <1>2, <1>3, <1>4, <1>5, <1>6, <1>7, <1>8, WalletCallStep DEF Wallet!Next

(* What an app asks after an answer finds what the answer promised: its    *)
(* handle is still its own unless it closed it, and every change that was  *)
(* answered is there, in whatever order the tasks of different calls run   *)
(* and over any number of live reloads, completed or failed. The answers   *)
(* that are excepted are exactly those given between a reload's save and   *)
(* its exec, which WritesStayInTheSession does not except                  *)
(* (wallet_mediator).                                                      *)
THEOREM AnswersCount ==
  ASSUME Wallet!SessionWalletAssumption
  PROVE  Wallet!Spec => []AnsweredCallsCount
<1>1. WalletInv => AnsweredCallsCount
  BY DEF WalletInv, AnsweredCallsCount, Wallet!AnsweredCallsCount
<1>2. Wallet!Init => WalletInv
  BY WalletStarts
<1>3. WalletInv /\ [Wallet!Next]_(Wallet!vars) => WalletInv'
  BY WalletStep
<1>. QED
  BY <1>1, <1>2, <1>3, PTL DEF Wallet!Spec

-----------------------------------------------------------------------------
(* The log of ended sessions.                                              *)

Moving == {"move", "truncate", "rewrite"}

(* A migration has the legacy file for itself, and in the end the current  *)
(* one too; an append that rewrites its file has that.                     *)
LockInv ==
  /\ \A p \in Servers : pc[p] \in Moving => locked["legacy"] = p
  /\ \A p \in Servers : pc[p] \in {"truncate", "rewrite"} => locked["current"] = p
  /\ \A p \in Servers : phase[p] # "ready" => Log!Appends(p) /\ locked[Log!Target(p)] = p
  /\ \A p \in Servers : phase[p] = "emptied" => file[Log!Target(p)] = <<>>
  /\ \A p \in Servers : version[p] = "old" => pc[p] \in {"idle", "append", "down"}

(* What a file has or is about to have again, what made room there for     *)
(* others, and what a kill took from it.                                   *)
Here(f) == Log!Retains(f) \cup lost[f]

(* What a migration will leave out of the legacy file is in the current    *)
(* one, or is still to be moved; what it will write back it has.           *)
MoveInv == \A p \in Servers :
  /\ pc[p] \in {"move", "truncate"} =>
       \A r \in Range(file["legacy"]) :
         IF Log!LegacyCompatible(r) THEN r \in Range(kept[p])
         ELSE \/ r \in Here("current")
              \/ pc[p] = "move" /\ r \in Range(moving[p])
  /\ pc[p] = "rewrite" => file["legacy"] = <<>>

Placed(r) == r \in Here("legacy") \/ (~Log!LegacyCompatible(r) /\ r \in Here("current"))

RowInv ==
  /\ \A p \in Servers : pc[p] \in {"append", "appendLegacy"} => row[p] \in Log!Row
  /\ \A r \in acked : Placed(r)

(* A lookup that has read the legacy file has found what is not in the     *)
(* current one.                                                            *)
Covers(best, r) == best # NoRow /\ Log!Supersedes(best, r)
Gone(r) == \E f \in Log!Files : r \in dropped[f] \cup lost[f]

LookupInv == \A p \in Servers :
  /\ \A r \in known[p] : r \in acked /\ r.session = asked[p]
  /\ pc[p] = "readCurrent" =>
       \A r \in known[p] : Covers(found[p], r) \/ r \in Here("current") \/ Gone(r)
  /\ pc[p] = "answered" => \A r \in known[p] : Covers(found[p], r) \/ Gone(r)

LogInv == Log!TypeOK /\ LockInv /\ MoveInv /\ RowInv /\ LookupInv

LEMMA RangeOfAppend ==
  ASSUME NEW S, NEW s \in Seq(S), NEW e \in S
  PROVE  Append(s, e) \in Seq(S) /\ Range(Append(s, e)) = Range(s) \cup {e}
<1>1. \A i \in 1..Len(s) : Append(s, e)[i] = s[i]
  OBVIOUS
<1>2. Append(s, e)[Len(s) + 1] = e /\ DOMAIN Append(s, e) = 1..(Len(s) + 1)
  OBVIOUS
<1>3. DOMAIN s = 1..Len(s) /\ Len(s) \in Nat
  OBVIOUS
<1>4. 1..(Len(s) + 1) = 1..Len(s) \cup {Len(s) + 1}
  BY <1>3
<1>. HIDE DEF Append
<1>. QED
  BY <1>1, <1>2, <1>3, <1>4 DEF Range

LEMMA RangeOfTail ==
  ASSUME NEW S, NEW s \in Seq(S), s # <<>>
  PROVE  /\ Head(s) \in S /\ Tail(s) \in Seq(S)
         /\ Range(s) = {Head(s)} \cup Range(Tail(s))
<1>1. Len(s) \in Nat \ {0} /\ DOMAIN s = 1..Len(s) /\ Head(s) = s[1]
  OBVIOUS
<1>2. DOMAIN Tail(s) = 1..(Len(s) - 1) /\ \A i \in 1..(Len(s) - 1) : Tail(s)[i] = s[i + 1]
  OBVIOUS
<1>3. \A i \in 1..Len(s) : i = 1 \/ (i - 1 \in 1..(Len(s) - 1) /\ (i - 1) + 1 = i)
  BY <1>1
<1>4. \A i \in 1..(Len(s) - 1) : i + 1 \in 1..Len(s)
  BY <1>1
<1>. HIDE DEF Tail, Head
<1>5. \A x \in Range(s) : x = Head(s) \/ x \in Range(Tail(s))
  <2>1. ASSUME NEW i \in 1..Len(s), i # 1
        PROVE  s[i] \in Range(Tail(s))
    <3>1. i - 1 \in DOMAIN Tail(s) /\ Tail(s)[i - 1] = s[i]
      BY <1>1, <1>2, <1>3, <2>1
    <3>. QED
      BY <3>1 DEF Range
  <2>. QED
    BY <1>1, <2>1 DEF Range
<1>6. \A x \in Range(Tail(s)) : x \in Range(s)
  BY <1>1, <1>2, <1>4 DEF Range
<1>7. Head(s) \in Range(s)
  BY <1>1 DEF Range
<1>. QED
  BY <1>1, <1>5, <1>6, <1>7

LEMMA RangeIsRange == \A s : Log!Range(s) = Range(s)
BY DEF Range, Log!Range

LEMMA RangeIsIn ==
  ASSUME NEW S, NEW s \in Seq(S)
  PROVE  Range(s) \subseteq S /\ Range(<<>>) = {}
BY DEF Range

(* The rows that older readers can parse and those that they cannot are,   *)
(* together, all of the file.                                              *)
LEMMA RowsAreSplit ==
  ASSUME NEW log \in Seq(Log!Row), NEW compatible \in BOOLEAN
  PROVE  /\ Log!Rows(log, compatible) \in Seq(Log!Row)
         /\ \A r \in Range(log) :
              (Log!LegacyCompatible(r) <=> compatible) => r \in Range(Log!Rows(log, compatible))
<1>. HIDE DEF Log!Row
<1> DEFINE N == Len(log)
           D == Seq(Log!Row)
           Is(r) == Log!LegacyCompatible(r) = compatible
           step == [x \in D \X (1..N) |-> IF Is(log[x[2]]) THEN Append(x[1], log[x[2]]) ELSE x[1]]
           G(f) == [n \in 0..N |-> IF n = 0 THEN <<>>
                                   ELSE IF Is(log[n]) THEN Append(f[n - 1], log[n]) ELSE f[n - 1]]
<1>1. N \in Nat /\ <<>> \in D /\ \A n \in 1..N : log[n] \in Log!Row
  OBVIOUS
<1>2. step \in [D \X (1..N) -> D]
  BY <1>1
<1>3. PICK f \in [0..N -> D] : Folds(f, <<>>, step, N)
  <2>. HIDE DEF step, D, N
  <2>. QED
    BY <1>1, <1>2, FoldExists
<1>4. f = G(f)
  <2>1. ASSUME NEW n \in 1..N
        PROVE  step[<<f[n - 1], n>>] =
                 IF Is(log[n]) THEN Append(f[n - 1], log[n]) ELSE f[n - 1]
    <3>1. n - 1 \in 0..N
      BY <1>1
    <3>2. <<f[n - 1], n>> \in D \X (1..N)
      BY <1>3, <3>1
    <3>. HIDE DEF Is, D, N
    <3>. QED
      BY <3>2
  <2>. HIDE DEF step, Is
  <2>2. f = [n \in 0..N |-> IF n = 0 THEN <<>> ELSE step[<<f[n - 1], n>>]]
    BY <1>3 DEF Folds
  <2>3. \A n \in 0..N : n = 0 \/ n \in 1..N
    BY <1>1
  <2>. HIDE DEF N
  <2>. QED
    BY <2>1, <2>2, <2>3
<1> DEFINE g == CHOOSE h : h = G(h)
<1>5. g = G(g)
  BY <1>4
<1>6. Log!Rows(log, compatible) = g[N]
  BY DEF Log!Rows
<1>. HIDE DEF g
<1>7. /\ g[0] = <<>>
      /\ \A n \in 1..N : g[n] = IF Is(log[n]) THEN Append(g[n - 1], log[n]) ELSE g[n - 1]
  <2>1. 0 \in 0..N /\ \A n \in 1..N : n \in 0..N /\ n # 0
    BY <1>1
  <2>. HIDE DEF N, Is
  <2>. QED
    BY <1>5, <2>1
<1> DEFINE S == {n \in Nat : n <= N => /\ g[n] \in D
                                      /\ \A i \in 1..n : Is(log[i]) => log[i] \in Range(g[n])}
<1>8. 0 \in S
  <2>1. g[0] \in D /\ 1..0 = {}
    BY <1>1, <1>7
  <2>. HIDE DEF D, Is, N
  <2>. QED
    BY <2>1
<1>9. ASSUME NEW n \in Nat, n \in S
      PROVE  n + 1 \in S
  <2>. HIDE DEF Is, D, N, G
  <2> SUFFICES ASSUME n + 1 <= N
               PROVE  /\ g[n + 1] \in D
                      /\ \A i \in 1..(n + 1) : Is(log[i]) => log[i] \in Range(g[n + 1])
    OBVIOUS
  <2>1. n + 1 \in 1..N /\ n <= N /\ (n + 1) - 1 = n
    BY <1>1
  <2>2. g[n] \in D /\ \A i \in 1..n : Is(log[i]) => log[i] \in Range(g[n])
    BY <1>9, <2>1
  <2>3. log[n + 1] \in Log!Row
    BY <1>1, <2>1
  <2>4. /\ g[n + 1] \in D /\ Range(g[n]) \subseteq Range(g[n + 1])
        /\ Is(log[n + 1]) => log[n + 1] \in Range(g[n + 1])
    <3>1. CASE Is(log[n + 1])
      <4>1. g[n + 1] = Append(g[n], log[n + 1])
        BY <1>7, <2>1, <3>1
      <4>. QED
        BY <2>2, <2>3, <4>1, RangeOfAppend DEF D
    <3>2. CASE ~Is(log[n + 1])
      BY <1>7, <2>1, <2>2, <3>2
    <3>. QED
      BY <3>1, <3>2
  <2>5. \A i \in 1..(n + 1) : i \in 1..n \/ i = n + 1
    OBVIOUS
  <2>. QED
    BY <2>2, <2>4, <2>5
<1>10. N \in S
  <2>. HIDE DEF S
  <2>. QED
    BY <1>1, <1>8, <1>9, Inductive
<1>11. ASSUME NEW r \in Range(log), Log!LegacyCompatible(r) <=> compatible
       PROVE  r \in Range(g[N])
  <2>1. PICK i \in 1..N : r = log[i]
    BY DEF Range
  <2>2. Log!LegacyCompatible(r) = compatible
    BY <1>11 DEF Log!LegacyCompatible
  <2>. HIDE DEF N
  <2>. QED
    BY <1>1, <1>10, <2>1, <2>2
<1>. QED
  BY <1>1, <1>6, <1>10, <1>11

LEMMA SupersedesIsAnOrder ==
  ASSUME Log!LogAssumption, NEW a \in Log!Row, NEW b \in Log!Row, NEW c \in Log!Row
  PROVE  /\ Log!Supersedes(a, a)
         /\ Log!Supersedes(a, b) \/ Log!Supersedes(b, a)
         /\ Log!Supersedes(a, b) /\ Log!Supersedes(b, c) => Log!Supersedes(a, c)
<1>1. /\ a.at \in Nat /\ b.at \in Nat /\ c.at \in Nat
      /\ {a.cleanup, b.cleanup, c.cleanup} \subseteq {"retained", "removed"}
  BY DEF Log!LogAssumption, Log!Row
<1>. QED
  BY <1>1 DEF Log!Supersedes

(* The better of two rows covers what either does.                         *)
LEMMA BetterCovers ==
  ASSUME Log!LogAssumption, NEW a \in Log!Row, NEW best \in Log!Row \cup {NoRow}
  PROVE  /\ Log!Better(a, best) \in Log!Row
         /\ Covers(Log!Better(a, best), a)
         /\ \A r \in Log!Row : Covers(best, r) => Covers(Log!Better(a, best), r)
<1>. HIDE DEF Log!Row
<1>1. a # NoRow
  BY DEF Log!LogAssumption
<1>2. CASE best = NoRow
  BY <1>1, <1>2, SupersedesIsAnOrder DEF Log!Better, Covers
<1>3. CASE best # NoRow
  <2>1. best \in Log!Row
    BY <1>3
  <2>2. CASE Log!Supersedes(a, best)
    <3>1. Log!Better(a, best) = a
      BY <1>3, <2>2 DEF Log!Better
    <3>2. Log!Supersedes(a, a)
      BY SupersedesIsAnOrder
    <3>3. \A r \in Log!Row : Log!Supersedes(best, r) => Log!Supersedes(a, r)
      BY <2>1, <2>2, SupersedesIsAnOrder
    <3>. QED
      BY <1>1, <3>1, <3>2, <3>3 DEF Covers
  <2>3. CASE ~Log!Supersedes(a, best)
    <3>1. Log!Better(a, best) = best
      BY <1>3, <2>3 DEF Log!Better
    <3>2. Log!Supersedes(best, a)
      BY <2>1, <2>3, SupersedesIsAnOrder
    <3>. QED
      BY <1>3, <2>1, <3>1, <3>2 DEF Covers
  <2>. QED
    BY <2>2, <2>3
<1>. QED
  BY <1>2, <1>3

(* lifecycle_record_from_path finds a row that covers every one of its     *)
(* session in the file.                                                    *)
LEMMA LatestCovers ==
  ASSUME Log!LogAssumption, NEW log \in Seq(Log!Row), NEW s
  PROVE  /\ Log!Latest(log, s) \in Log!Row \cup {NoRow}
         /\ \A r \in Range(log) : r.session = s => Covers(Log!Latest(log, s), r)
<1>. HIDE DEF Log!Row
<1> DEFINE N == Len(log)
           D == Log!Row \cup {NoRow}
           Is(r) == r.session = s
           step == [x \in D \X (1..N) |->
                      IF Is(log[x[2]]) THEN Log!Better(log[x[2]], x[1]) ELSE x[1]]
           G(f) == [n \in 0..N |-> IF n = 0 THEN NoRow
                                   ELSE IF Is(log[n]) THEN Log!Better(log[n], f[n - 1])
                                   ELSE f[n - 1]]
<1>1. N \in Nat /\ NoRow \in D /\ \A n \in 1..N : log[n] \in Log!Row
  OBVIOUS
<1>2. step \in [D \X (1..N) -> D]
  <2>1. ASSUME NEW x \in D \X (1..N)
        PROVE  (IF Is(log[x[2]]) THEN Log!Better(log[x[2]], x[1]) ELSE x[1]) \in D
    <3>1. x[1] \in D /\ x[2] \in 1..N
      BY <2>1
    <3>2. log[x[2]] \in Log!Row
      BY <1>1, <3>1
    <3>3. Log!Better(log[x[2]], x[1]) \in Log!Row
      BY <3>1, <3>2, BetterCovers
    <3>. QED
      BY <3>1, <3>3
  <2>. HIDE DEF Is, D, N
  <2>. QED
    BY <2>1
<1>3. PICK f \in [0..N -> D] : Folds(f, NoRow, step, N)
  <2>. HIDE DEF step, D, N
  <2>. QED
    BY <1>1, <1>2, FoldExists
<1>4. f = G(f)
  <2>1. ASSUME NEW n \in 1..N
        PROVE  step[<<f[n - 1], n>>] =
                 IF Is(log[n]) THEN Log!Better(log[n], f[n - 1]) ELSE f[n - 1]
    <3>1. n - 1 \in 0..N
      BY <1>1
    <3>2. <<f[n - 1], n>> \in D \X (1..N)
      BY <1>3, <3>1
    <3>. HIDE DEF Is, D, N
    <3>. QED
      BY <3>2
  <2>. HIDE DEF step, Is
  <2>2. f = [n \in 0..N |-> IF n = 0 THEN NoRow ELSE step[<<f[n - 1], n>>]]
    BY <1>3 DEF Folds
  <2>3. \A n \in 0..N : n = 0 \/ n \in 1..N
    BY <1>1
  <2>. HIDE DEF N
  <2>. QED
    BY <2>1, <2>2, <2>3
<1> DEFINE g == CHOOSE h : h = G(h)
<1>5. g = G(g)
  BY <1>4
<1>6. Log!Latest(log, s) = g[N]
  BY DEF Log!Latest
<1>. HIDE DEF g
<1>7. /\ g[0] = NoRow
      /\ \A n \in 1..N : g[n] = IF Is(log[n]) THEN Log!Better(log[n], g[n - 1]) ELSE g[n - 1]
  <2>1. 0 \in 0..N /\ \A n \in 1..N : n \in 0..N /\ n # 0
    BY <1>1
  <2>. HIDE DEF N, Is
  <2>. QED
    BY <1>5, <2>1
<1> DEFINE S == {n \in Nat : n <= N => /\ g[n] \in D
                                      /\ \A i \in 1..n : Is(log[i]) => Covers(g[n], log[i])}
<1>8. 0 \in S
  <2>1. g[0] \in D /\ 1..0 = {}
    BY <1>1, <1>7
  <2>. HIDE DEF D, Is, N
  <2>. QED
    BY <2>1
<1>9. ASSUME NEW n \in Nat, n \in S
      PROVE  n + 1 \in S
  <2>. HIDE DEF Is, N, G
  <2> SUFFICES ASSUME n + 1 <= N
               PROVE  /\ g[n + 1] \in D
                      /\ \A i \in 1..(n + 1) : Is(log[i]) => Covers(g[n + 1], log[i])
    OBVIOUS
  <2>1. n + 1 \in 1..N /\ n <= N /\ (n + 1) - 1 = n
    BY <1>1
  <2>2. g[n] \in D /\ \A i \in 1..n : Is(log[i]) => Covers(g[n], log[i])
    BY <1>9, <2>1
  <2>3. log[n + 1] \in Log!Row /\ \A i \in 1..n : log[i] \in Log!Row
    BY <1>1, <2>1
  <2>4. /\ g[n + 1] \in D
        /\ \A r \in Log!Row : Covers(g[n], r) => Covers(g[n + 1], r)
        /\ Is(log[n + 1]) => Covers(g[n + 1], log[n + 1])
    <3>1. CASE Is(log[n + 1])
      <4>1. g[n + 1] = Log!Better(log[n + 1], g[n])
        BY <1>7, <2>1, <3>1
      <4>. QED
        BY <2>2, <2>3, <4>1, BetterCovers
    <3>2. CASE ~Is(log[n + 1])
      BY <1>7, <2>1, <2>2, <3>2
    <3>. QED
      BY <3>1, <3>2
  <2>5. \A i \in 1..(n + 1) : i \in 1..n \/ i = n + 1
    OBVIOUS
  <2>. QED
    BY <2>2, <2>3, <2>4, <2>5
<1>10. N \in S
  <2>. HIDE DEF S
  <2>. QED
    BY <1>1, <1>8, <1>9, Inductive
<1>11. ASSUME NEW r \in Range(log), r.session = s
       PROVE  Covers(g[N], r)
  <2>1. PICK i \in 1..N : r = log[i]
    BY DEF Range
  <2>. HIDE DEF N
  <2>. QED
    BY <1>1, <1>10, <1>11, <2>1
<1>. QED
  BY <1>1, <1>6, <1>10, <1>11

LEMMA LogStarts == ASSUME Log!LogAssumption, Log!Init PROVE LogInv
<1>. USE DEF Log!Init
<1>1. Log!TypeOK
  BY DEF Log!TypeOK, Log!Steps, Log!LogAssumption, Log!Files
<1>2. LockInv
  BY DEF LockInv, Moving, Log!Files
<1>3. MoveInv /\ RowInv /\ LookupInv
  BY DEF MoveInv, RowInv, LookupInv
<1>. QED
  BY <1>1, <1>2, <1>3 DEF LogInv

LEMMA NextRowIsRow ==
  ASSUME Log!TypeOK, Log!LogAssumption, NEW p \in Servers, NEW s \in Sessions,
         NEW cleanup \in {"retained", "removed"}, Log!MayRecord(p, s)
  PROVE  /\ Log!NextRow(s, cleanup) \in Log!Row /\ Log!NextRow(s, cleanup).session = s
         /\ Owner[s] = p /\ pc[p] = "idle"
         /\ [rows EXCEPT ![s] = @ + 1] \in [Sessions -> 0..MaxRows]
<1>1. rows[s] \in Nat /\ rows[s] + 1 \in 1..MaxRows /\ 1 \in 1..MaxRows
  BY DEF Log!TypeOK, Log!MayRecord, Log!LogAssumption
<1>2. Log!NextRow(s, cleanup) \in Log!Row /\ Log!NextRow(s, cleanup).session = s
  BY <1>1 DEF Log!NextRow, Log!Row
<1>3. [rows EXCEPT ![s] = @ + 1] \in [Sessions -> 0..MaxRows]
  BY <1>1 DEF Log!TypeOK
<1>. QED
  BY <1>2, <1>3 DEF Log!MayRecord

(* What the steps do that are alternatives inside.                         *)
LEMMA SplitDoes ==
  ASSUME Log!TypeOK, NEW p \in Servers, Log!Split(p)
  PROVE  /\ pc[p] = "migrate" /\ locked["legacy"] = Log!Nobody
         /\ \/ /\ pc' = [pc EXCEPT ![p] = "move"]
               /\ locked' = [locked EXCEPT !["legacy"] = p]
            \/ pc' = [pc EXCEPT ![p] = Log!After(p)] /\ locked' = locked
         /\ moving' = [moving EXCEPT ![p] = Log!Rows(file["legacy"], FALSE)]
         /\ kept' = [kept EXCEPT ![p] = Log!Rows(file["legacy"], TRUE)]
         /\ UNCHANGED <<file, version, row, phase, retained, asked, found, known, rows, acked,
                        dropped, lost>>
<1>. USE DEF Log!Split, Log!lookupVars
<1>1. CASE Log!Rows(file["legacy"], FALSE) = <<>>
  BY <1>1, Zenon
<1>2. CASE Log!Rows(file["legacy"], FALSE) # <<>>
  BY <1>2, Zenon
<1>. QED
  BY <1>1, <1>2

LEMMA GoOnDoes ==
  ASSUME NEW p \in Servers, Log!GoOn(p)
  PROVE  \/ /\ pc[p] = "move" /\ moving' = [moving EXCEPT ![p] = Tail(moving[p])]
            /\ UNCHANGED <<pc, row, acked>>
         \/ /\ pc[p] # "move" /\ pc' = [pc EXCEPT ![p] = "appendLegacy"]
            /\ Log!Target(p) = "current"
            /\ UNCHANGED <<row, moving, acked>>
         \/ /\ pc[p] # "move" /\ pc' = [pc EXCEPT ![p] = "idle"]
            /\ Log!Target(p) # "current" \/ ~Log!LegacyCompatible(row[p])
            /\ acked' = acked \cup {row[p]}
            /\ row' = [row EXCEPT ![p] = NoRow] /\ UNCHANGED moving
<1>1. CASE pc[p] = "move"
  BY <1>1 DEF Log!GoOn
<1>2. CASE pc[p] # "move" /\ Log!Target(p) = "current" /\ Log!LegacyCompatible(row[p])
  BY <1>2, Zenon DEF Log!GoOn
<1>3. CASE pc[p] # "move" /\ ~(Log!Target(p) = "current" /\ Log!LegacyCompatible(row[p]))
  BY <1>3, Zenon DEF Log!GoOn
<1>. QED
  BY <1>1, <1>2, <1>3

LEMMA TargetIsFile ==
  ASSUME Log!TypeOK, NEW p \in Servers
  PROVE  /\ "legacy" \in Log!Files /\ "current" \in Log!Files /\ Log!Target(p) \in Log!Files
         /\ \A f \in Log!Files : file[f] \in Seq(Log!Row) /\ locked[f] \in Servers \cup {Log!Nobody}
         /\ \A f \in Log!Files : dropped[f] \subseteq Log!Row /\ lost[f] \subseteq Log!Row
BY DEF Log!TypeOK, Log!Files, Log!Target

(* The row that a server appends is a row.                                 *)
LEMMA RowOfIsRow ==
  ASSUME LogInv, NEW p \in Servers, Log!Appends(p)
  PROVE  /\ Log!RowOf(p) \in Log!Row
         /\ pc[p] = "move" => /\ Log!RowOf(p) = Head(moving[p])
                              /\ Tail(moving[p]) \in Seq(Log!Row)
                              /\ Range(moving[p]) = {Log!RowOf(p)} \cup Range(Tail(moving[p]))
                              /\ Log!Target(p) = "current"
<1>. HIDE DEF Log!Row
<1>1. CASE pc[p] = "move"
  <2>1. moving[p] \in Seq(Log!Row) /\ moving[p] # <<>> /\ version[p] = "new"
    BY <1>1 DEF Log!Appends, LogInv, LockInv, Log!TypeOK
  <2>2. /\ Head(moving[p]) \in Log!Row /\ Tail(moving[p]) \in Seq(Log!Row)
        /\ Range(moving[p]) = {Head(moving[p])} \cup Range(Tail(moving[p]))
    BY <2>1, RangeOfTail
  <2>. QED
    BY <1>1, <2>1, <2>2 DEF Log!RowOf, Log!Target
<1>2. CASE pc[p] # "move"
  BY <1>2 DEF Log!Appends, Log!RowOf, LogInv, RowInv
<1>. QED
  BY <1>1, <1>2

(* A full file is emptied but for what is in the memory of its server.     *)
Empties(p, f, head, tail) ==
  /\ f = Log!Target(p) /\ Log!Appends(p) /\ phase[p] = "ready" /\ locked[f] = Log!Nobody
  /\ Range(file[f]) = {head} \cup Range(tail)
  /\ retained' = [retained EXCEPT ![p] = tail]
  /\ dropped' = [dropped EXCEPT ![f] = dropped[f] \cup {head}]
  /\ file' = [file EXCEPT ![f] = <<>>]
  /\ locked' = [locked EXCEPT ![f] = p]
  /\ phase' = [phase EXCEPT ![p] = "emptied"]
  /\ UNCHANGED <<version, pc, row, moving, kept, asked, found, known, rows, acked, lost>>

LEMMA EmptyDoes ==
  ASSUME Log!LogAssumption, LogInv, NEW p \in Servers, Log!Empty(p)
  PROVE  \E f \in Log!Files, head \in Log!Row, tail \in Seq(Log!Row) : Empties(p, f, head, tail)
<1>. HIDE DEF Log!Row
<1>1. file[Log!Target(p)] \in Seq(Log!Row) /\ Log!Target(p) \in Log!Files
  BY TargetIsFile DEF LogInv
<1>2. file[Log!Target(p)] # <<>>
  BY DEF Log!Empty, Log!LogAssumption
<1>3. /\ Head(file[Log!Target(p)]) \in Log!Row /\ Tail(file[Log!Target(p)]) \in Seq(Log!Row)
      /\ Range(file[Log!Target(p)]) =
           {Head(file[Log!Target(p)])} \cup Range(Tail(file[Log!Target(p)]))
  BY <1>1, <1>2, RangeOfTail
<1>. QED
  BY <1>1, <1>3 DEF Empties, Log!Empty, Log!lookupVars

(* The row is in the file, and the lock is let go.                         *)
AppendsTo(p, f) ==
  /\ f = Log!Target(p) /\ Log!Appends(p)
  /\ \/ phase[p] = "ready" /\ locked[f] = Log!Nobody
     \/ phase[p] = "refilled" /\ locked[f] = p
  /\ file' = [file EXCEPT ![f] = Append(file[f], Log!RowOf(p))]
  /\ file'[f] \in Seq(Log!Row)
  /\ Range(file'[f]) = Range(file[f]) \cup {Log!RowOf(p)}
  /\ locked' = [locked EXCEPT ![f] = Log!Nobody]
  /\ phase' = [phase EXCEPT ![p] = "ready"]
  /\ UNCHANGED <<version, retained, kept, asked, found, known, rows, dropped, lost>>

LEMMA AppendRowDoes ==
  ASSUME LogInv, NEW p \in Servers, Log!AppendRow(p)
  PROVE  Log!GoOn(p) /\ \E f \in Log!Files : AppendsTo(p, f)
<1>. HIDE DEF Log!Row
<1>. DEFINE f == Log!Target(p)
<1>1. file[f] \in Seq(Log!Row) /\ f \in Log!Files
  BY TargetIsFile DEF LogInv
<1>2. /\ Log!Appends(p) /\ Log!GoOn(p)
      /\ \/ phase[p] = "ready" /\ locked[f] = Log!Nobody
         \/ phase[p] = "refilled"
      /\ file' = [file EXCEPT ![f] = Append(file[f], Log!RowOf(p))]
      /\ locked' = [locked EXCEPT ![f] = Log!Nobody]
      /\ phase' = [phase EXCEPT ![p] = "ready"]
      /\ UNCHANGED <<version, retained, kept, asked, found, known, rows, dropped, lost>>
  BY DEF Log!AppendRow, Log!lookupVars
<1>3. phase[p] = "refilled" => locked[f] = p
  BY DEF LogInv, LockInv
<1>4. file'[f] = Append(file[f], Log!RowOf(p))
  BY <1>1, <1>2 DEF LogInv, Log!TypeOK
<1>5. file'[f] \in Seq(Log!Row) /\ Range(file'[f]) = Range(file[f]) \cup {Log!RowOf(p)}
  BY <1>1, <1>2, <1>4, RowOfIsRow, RangeOfAppend
<1>. HIDE DEF f
<1>6. f = Log!Target(p)
  BY DEF f
<1>. QED
  BY <1>1, <1>2, <1>3, <1>5, <1>6 DEF AppendsTo

(* A step of one server.                                                   *)
LogStep(p) ==
  \/ Log!BeginAppend(p) \/ Log!Upgrade(p) \/ Log!BeginLookup(p)
  \/ Log!Empty(p) \/ Log!WriteBack(p) \/ Log!AppendRow(p)
  \/ Log!Split(p) \/ Log!LockCurrent(p) \/ Log!Truncate(p) \/ Log!Rewrite(p)
  \/ Log!ReadLegacy(p) \/ Log!ReadCurrent(p) \/ Log!EndLookup(p) \/ Log!Killed(p)

LEMMA LogTypeStep ==
  ASSUME Log!LogAssumption, LogInv, NEW p \in Servers, LogStep(p)
  PROVE  Log!TypeOK'
<1>. HIDE DEF Log!Row
<1>. Log!TypeOK
  BY DEF LogInv
<1>a. Log!After(p) \in Log!Steps /\ {"idle", "migrate", "move", "truncate", "rewrite", "append",
        "appendLegacy", "readCurrent", "answered", "down"} \subseteq Log!Steps
  BY DEF Log!After, Log!Steps
<1>b. /\ "legacy" \in Log!Files /\ "current" \in Log!Files /\ Log!Target(p) \in Log!Files
      /\ <<>> \in Seq(Log!Row)
  BY TargetIsFile
<1>1. CASE Log!Empty(p)
  <2>1. PICK f \in Log!Files, head \in Log!Row, tail \in Seq(Log!Row) : Empties(p, f, head, tail)
    BY <1>1, EmptyDoes
  <2>. USE DEF Empties
  <2>2. /\ retained' \in [Servers -> Seq(Log!Row)] /\ file' \in [Log!Files -> Seq(Log!Row)]
        /\ phase' \in [Servers -> {"ready", "emptied", "refilled"}]
    BY <1>b, <2>1 DEF Log!TypeOK
  <2>3. /\ dropped' \in [Log!Files -> SUBSET Log!Row]
        /\ locked' \in [Log!Files -> Servers \cup {Log!Nobody}]
    BY <2>1 DEF Log!TypeOK
  <2>. QED
    BY <2>1, <2>2, <2>3 DEF Log!TypeOK
<1>2. CASE Log!AppendRow(p)
  <2>1. PICK f \in Log!Files : AppendsTo(p, f)
    BY <1>2, AppendRowDoes
  <2>g. Log!GoOn(p)
    BY <1>2, AppendRowDoes
  <2>2. /\ file' \in [Log!Files -> Seq(Log!Row)]
        /\ locked' \in [Log!Files -> Servers \cup {Log!Nobody}]
        /\ phase' \in [Servers -> {"ready", "emptied", "refilled"}]
    BY <2>1 DEF AppendsTo, Log!TypeOK
  <2>3. /\ pc' \in [Servers -> Log!Steps] /\ row' \in [Servers -> Log!Row \cup {NoRow}]
        /\ moving' \in [Servers -> Seq(Log!Row)] /\ acked' \subseteq Log!Row
    <3>1. CASE /\ pc[p] = "move" /\ moving' = [moving EXCEPT ![p] = Tail(moving[p])]
               /\ UNCHANGED <<pc, row, acked>>
      BY <2>1, <3>1, RowOfIsRow DEF AppendsTo, Log!TypeOK
    <3>2. CASE pc' = [pc EXCEPT ![p] = "appendLegacy"] /\ UNCHANGED <<row, moving, acked>>
      BY <1>a, <3>2 DEF Log!TypeOK
    <3>3. CASE /\ pc[p] # "move" /\ pc' = [pc EXCEPT ![p] = "idle"]
               /\ acked' = acked \cup {row[p]}
               /\ row' = [row EXCEPT ![p] = NoRow] /\ UNCHANGED moving
      <4>1. row[p] \in Log!Row
        BY <2>1, <3>3 DEF AppendsTo, LogInv, RowInv, Log!Appends
      <4>. QED
        BY <1>a, <3>3, <4>1 DEF Log!TypeOK
    <3>. QED
      BY <2>g, <3>1, <3>2, <3>3, GoOnDoes
  <2>. QED
    BY <2>1, <2>2, <2>3 DEF AppendsTo, Log!TypeOK
<1>3. CASE Log!Split(p)
  <2>1. /\ moving' = [moving EXCEPT ![p] = Log!Rows(file["legacy"], FALSE)]
        /\ kept' = [kept EXCEPT ![p] = Log!Rows(file["legacy"], TRUE)]
        /\ UNCHANGED <<file, version, row, phase, retained, asked, found, known, rows, acked,
                       dropped, lost>>
        /\ \/ pc' = [pc EXCEPT ![p] = "move"] /\ locked' = [locked EXCEPT !["legacy"] = p]
           \/ pc' = [pc EXCEPT ![p] = Log!After(p)] /\ locked' = locked
    BY <1>3, SplitDoes
  <2>2. /\ Log!Rows(file["legacy"], TRUE) \in Seq(Log!Row)
        /\ Log!Rows(file["legacy"], FALSE) \in Seq(Log!Row)
    BY RowsAreSplit, TargetIsFile
  <2>3. moving' \in [Servers -> Seq(Log!Row)] /\ kept' \in [Servers -> Seq(Log!Row)]
    BY <2>1, <2>2 DEF Log!TypeOK
  <2>4. /\ pc' \in [Servers -> Log!Steps]
        /\ locked' \in [Log!Files -> Servers \cup {Log!Nobody}]
    <3>1. CASE pc' = [pc EXCEPT ![p] = "move"] /\ locked' = [locked EXCEPT !["legacy"] = p]
      BY <1>a, <1>b, <3>1 DEF Log!TypeOK
    <3>2. CASE pc' = [pc EXCEPT ![p] = Log!After(p)] /\ locked' = locked
      BY <1>a, <3>2 DEF Log!TypeOK
    <3>. QED
      BY <2>1, <3>1, <3>2
  <2>. QED
    BY <2>1, <2>3, <2>4 DEF Log!TypeOK
<1>4. CASE Log!Killed(p)
  <2>1. lost' \in [Log!Files -> SUBSET Log!Row]
    <3>1. \A q \in Servers : Range(retained[q]) \subseteq Log!Row /\ Range(kept[q]) \subseteq Log!Row
      BY RangeIsIn DEF Log!TypeOK
    <3>2. \A f \in Log!Files : Log!InHand(p, f) \subseteq Log!Row
      <4>1. \A f : Log!InHand(p, f) \in {Range(retained[p]), Range(kept[p]), {}}
        BY RangeIsRange DEF Log!InHand
      <4>. QED
        BY <3>1, <4>1
    <3>3. \A f \in Log!Files : lost[f] \cup Log!InHand(p, f) \in SUBSET Log!Row
      BY <3>2, TargetIsFile
    <3>. QED
      BY <1>4, <3>3 DEF Log!Killed
  <2>2. locked' \in [Log!Files -> Servers \cup {Log!Nobody}]
    BY <1>4 DEF Log!Killed, Log!TypeOK
  <2>. QED
    BY <1>a, <1>4, <2>1, <2>2 DEF Log!Killed, Log!lookupVars, Log!TypeOK
<1> USE DEF Log!TypeOK, Log!lookupVars
<1>5. CASE Log!BeginAppend(p)
  <2>1. PICK s \in Sessions, cleanup \in {"retained", "removed"} :
          /\ Log!MayRecord(p, s) /\ row' = [row EXCEPT ![p] = Log!NextRow(s, cleanup)]
          /\ rows' = [rows EXCEPT ![s] = @ + 1]
    BY <1>5 DEF Log!BeginAppend
  <2>2. Log!NextRow(s, cleanup) \in Log!Row /\ rows' \in [Sessions -> 0..MaxRows]
    BY <2>1, NextRowIsRow
  <2>. QED
    BY <1>a, <1>5, <2>1, <2>2 DEF Log!BeginAppend
<1>6. CASE Log!Upgrade(p)
  BY <1>6 DEF Log!Upgrade
<1>7. CASE Log!BeginLookup(p)
  <2>1. PICK s \in Sessions :
          /\ asked' = [asked EXCEPT ![p] = s]
          /\ known' = [known EXCEPT ![p] = {r \in acked : r.session = s}]
    BY <1>7 DEF Log!BeginLookup
  <2>2. known' \in [Servers -> SUBSET Log!Row] /\ asked' \in [Servers -> Sessions \cup {NoRow}]
    BY <2>1
  <2>. QED
    BY <1>a, <1>7, <2>2 DEF Log!BeginLookup
<1>8. CASE Log!WriteBack(p)
  BY <1>b, <1>8 DEF Log!WriteBack
<1>9. CASE Log!LockCurrent(p)
  BY <1>a, <1>b, <1>9 DEF Log!LockCurrent
<1>10. CASE Log!Truncate(p)
  BY <1>a, <1>b, <1>10 DEF Log!Truncate
<1>11. CASE Log!Rewrite(p)
  BY <1>a, <1>b, <1>11 DEF Log!Rewrite, Log!Unlocked
<1>12. CASE Log!ReadLegacy(p)
  BY <1>a, <1>b, <1>12, LatestCovers DEF Log!ReadLegacy
<1>13. CASE Log!ReadCurrent(p)
  <2>1. Log!Latest(file["current"], asked[p]) \in Log!Row \cup {NoRow}
    BY <1>b, LatestCovers
  <2>2. (IF Log!Latest(file["current"], asked[p]) = NoRow THEN found[p]
         ELSE Log!Better(Log!Latest(file["current"], asked[p]), found[p])) \in Log!Row \cup {NoRow}
    BY <2>1, BetterCovers
  <2>. QED
    BY <1>a, <1>13, <2>2 DEF Log!ReadCurrent
<1>14. CASE Log!EndLookup(p)
  BY <1>a, <1>14 DEF Log!EndLookup
<1>. QED
  BY <1>1, <1>2, <1>3, <1>4, <1>5, <1>6, <1>7, <1>8, <1>9, <1>10, <1>11, <1>12, <1>13, <1>14
     DEF LogStep

(* What a step of one server leaves alone: the others, the files that they *)
(* have locked, and what was recorded.                                     *)
LEMMA OthersStand ==
  ASSUME Log!LogAssumption, LogInv, NEW p \in Servers, LogStep(p)
  PROVE  /\ \A q \in Servers \ {p} :
              /\ pc'[q] = pc[q] /\ row'[q] = row[q] /\ version'[q] = version[q]
              /\ phase'[q] = phase[q] /\ retained'[q] = retained[q]
              /\ moving'[q] = moving[q] /\ kept'[q] = kept[q]
              /\ found'[q] = found[q] /\ asked'[q] = asked[q] /\ known'[q] = known[q]
         /\ \A f \in Log!Files :
              locked[f] \notin {p, Log!Nobody} => file'[f] = file[f] /\ locked'[f] = locked[f]
         /\ \A f \in Log!Files : dropped[f] \subseteq dropped'[f] /\ lost[f] \subseteq lost'[f]
         /\ acked \subseteq acked'
<1>. HIDE DEF Log!Row
<1>. Log!TypeOK /\ LockInv
  BY DEF LogInv
<1>b. "legacy" \in Log!Files /\ "current" \in Log!Files /\ Log!Target(p) \in Log!Files
  BY TargetIsFile
<1>. USE DEF Log!TypeOK, Log!lookupVars
<1>1. CASE Log!Empty(p)
  BY <1>1, <1>b DEF Log!Empty
<1>2. CASE Log!AppendRow(p)
  <2>1. PICK f \in Log!Files : AppendsTo(p, f)
    BY <1>2, AppendRowDoes
  <2>2. /\ \A q \in Servers \ {p} : pc'[q] = pc[q] /\ row'[q] = row[q] /\ moving'[q] = moving[q]
        /\ acked \subseteq acked'
    <3>1. CASE moving' = [moving EXCEPT ![p] = Tail(moving[p])] /\ UNCHANGED <<pc, row, acked>>
      BY <3>1
    <3>2. CASE pc' = [pc EXCEPT ![p] = "appendLegacy"] /\ UNCHANGED <<row, moving, acked>>
      BY <3>2
    <3>3. CASE /\ pc' = [pc EXCEPT ![p] = "idle"] /\ acked' = acked \cup {row[p]}
               /\ row' = [row EXCEPT ![p] = NoRow] /\ UNCHANGED moving
      BY <3>3
    <3>. QED
      BY <1>2, <3>1, <3>2, <3>3, AppendRowDoes, GoOnDoes
  <2>. QED
    BY <2>1, <2>2 DEF AppendsTo
<1>3. CASE Log!Split(p)
  <2>1. /\ locked["legacy"] = Log!Nobody
        /\ \/ /\ pc' = [pc EXCEPT ![p] = "move"]
              /\ locked' = [locked EXCEPT !["legacy"] = p]
           \/ pc' = [pc EXCEPT ![p] = Log!After(p)] /\ locked' = locked
        /\ moving' = [moving EXCEPT ![p] = Log!Rows(file["legacy"], FALSE)]
        /\ kept' = [kept EXCEPT ![p] = Log!Rows(file["legacy"], TRUE)]
        /\ UNCHANGED <<file, version, row, phase, retained, asked, found, known, acked,
                       dropped, lost>>
    BY <1>3, SplitDoes
  <2>2. /\ \A q \in Servers \ {p} : pc'[q] = pc[q]
        /\ \A f \in Log!Files : locked[f] # Log!Nobody => locked'[f] = locked[f]
    <3>1. CASE pc' = [pc EXCEPT ![p] = "move"] /\ locked' = [locked EXCEPT !["legacy"] = p]
      BY <2>1, <3>1
    <3>2. CASE pc' = [pc EXCEPT ![p] = Log!After(p)] /\ locked' = locked
      BY <3>2
    <3>. QED
      BY <2>1, <3>1, <3>2
  <2>. QED
    BY <2>1, <2>2
<1>4. CASE Log!WriteBack(p)
  BY <1>4, <1>b DEF Log!WriteBack, LockInv
<1>5. CASE Log!Rewrite(p)
  <2>1. locked["legacy"] = p /\ locked["current"] = p
    BY <1>5 DEF Log!Rewrite, LockInv, Moving
  <2>. QED
    BY <1>5, <2>1 DEF Log!Rewrite, Log!Files
<1>6. CASE Log!Truncate(p)
  <2>1. locked["legacy"] = p
    BY <1>6 DEF Log!Truncate, LockInv, Moving
  <2>. QED
    BY <1>6, <2>1 DEF Log!Truncate
<1>7. CASE Log!LockCurrent(p) \/ Log!ReadLegacy(p) \/ Log!ReadCurrent(p) \/ Log!EndLookup(p)
  BY <1>7 DEF Log!LockCurrent, Log!ReadLegacy, Log!ReadCurrent, Log!EndLookup
<1>8. CASE Log!Killed(p)
  BY <1>8 DEF Log!Killed
<1>9. CASE Log!BeginAppend(p) \/ Log!Upgrade(p) \/ Log!BeginLookup(p)
  BY <1>9 DEF Log!BeginAppend, Log!Upgrade, Log!BeginLookup
<1>. QED
  BY <1>1, <1>2, <1>3, <1>4, <1>5, <1>6, <1>7, <1>8, <1>9 DEF LogStep

LEMMA LockStep ==
  ASSUME Log!LogAssumption, LogInv, NEW p \in Servers, LogStep(p)
  PROVE  LockInv'
<1>. HIDE DEF Log!Row
<1>. Log!TypeOK /\ LockInv
  BY DEF LogInv
<1>b. /\ "legacy" \in Log!Files /\ "current" \in Log!Files /\ Log!Nobody \notin Servers
      /\ \A q \in Servers : Log!Target(q) \in Log!Files
  BY TargetIsFile DEF Log!LogAssumption
<1>. /\ pc \in [Servers -> Log!Steps] /\ version \in [Servers -> {"old", "new"}]
     /\ phase \in [Servers -> {"ready", "emptied", "refilled"}]
     /\ moving \in [Servers -> Seq(Log!Row)] /\ row \in [Servers -> Log!Row \cup {NoRow}]
     /\ file \in [Log!Files -> Seq(Log!Row)]
     /\ locked \in [Log!Files -> Servers \cup {Log!Nobody}]
  BY DEF Log!TypeOK
<1>o. ASSUME NEW q \in Servers \ {p}
      PROVE  /\ pc'[q] \in Moving => locked'["legacy"] = q
             /\ pc'[q] \in {"truncate", "rewrite"} => locked'["current"] = q
             /\ phase'[q] # "ready" => Log!Appends(q)' /\ locked'[Log!Target(q)'] = q
             /\ phase'[q] = "emptied" => file'[Log!Target(q)'] = <<>>
             /\ version'[q] = "old" => pc'[q] \in {"idle", "append", "down"}
  <2>1. /\ pc'[q] = pc[q] /\ version'[q] = version[q] /\ phase'[q] = phase[q]
        /\ moving'[q] = moving[q]
        /\ \A f \in Log!Files : locked[f] = q => file'[f] = file[f] /\ locked'[f] = locked[f]
    BY <1>b, OthersStand
  <2>2. Log!Target(q)' = Log!Target(q) /\ (Log!Appends(q)' <=> Log!Appends(q))
    BY <2>1 DEF Log!Target, Log!Appends
  <2>. QED
    BY <1>b, <2>1, <2>2 DEF LockInv
<1>1. CASE Log!Empty(p)
  <2>1. PICK f \in Log!Files, head \in Log!Row, tail \in Seq(Log!Row) : Empties(p, f, head, tail)
    BY <1>1, EmptyDoes
  <2>2. /\ locked'[f] = p /\ f = Log!Target(p) /\ file'[f] = <<>>
        /\ UNCHANGED <<pc, version, moving>> /\ Log!Appends(p)
        /\ \A g \in Log!Files : locked[g] = p => locked'[g] = p
    BY <2>1 DEF Empties
  <2>3. Log!Target(p)' = Log!Target(p) /\ Log!Appends(p)'
    BY <2>2 DEF Log!Target, Log!Appends
  <2>. QED
    BY <1>b, <1>o, <2>2, <2>3 DEF LockInv
<1>2. CASE Log!WriteBack(p)
  <2>1. /\ phase[p] = "emptied" /\ phase' = [phase EXCEPT ![p] = "refilled"]
        /\ UNCHANGED <<locked, pc, version, moving>>
    BY <1>2 DEF Log!WriteBack
  <2>2. Log!Target(p)' = Log!Target(p) /\ (Log!Appends(p)' <=> Log!Appends(p))
    BY <2>1 DEF Log!Target, Log!Appends
  <2>. QED
    BY <1>b, <1>o, <2>1, <2>2 DEF LockInv
<1>3. CASE Log!AppendRow(p)
  <2>1. PICK f \in Log!Files : AppendsTo(p, f)
    BY <1>3, AppendRowDoes
  <2>2. /\ phase'[p] = "ready" /\ UNCHANGED version /\ Log!Appends(p)
        /\ \A g \in Log!Files : g # f => locked'[g] = locked[g]
    BY <2>1 DEF AppendsTo
  <2>3. pc[p] = "move" => f = "current"
    BY <2>1, RowOfIsRow DEF AppendsTo
  <2>4. \/ pc[p] = "move" /\ pc'[p] = "move"
        \/ pc'[p] \in {"idle", "appendLegacy"} /\ (pc'[p] = "appendLegacy" => f = "current")
    BY <1>3, <2>1, AppendRowDoes, GoOnDoes DEF AppendsTo
  <2>5. version[p] = "old" => f # "current"
    BY <2>1, <2>2 DEF AppendsTo, LockInv, Log!Target
  <2>. QED
    BY <1>b, <1>o, <2>2, <2>3, <2>4, <2>5 DEF LockInv, Moving
<1>4. CASE Log!Split(p)
  <2>1. /\ pc[p] = "migrate" /\ UNCHANGED <<version, phase>>
        /\ Log!After(p) \notin Moving
    BY <1>4, SplitDoes DEF Log!After, Moving
  <2>2. phase[p] = "ready" /\ version[p] # "old"
    BY <2>1 DEF LockInv, Log!Appends
  <2>3. \/ pc'[p] = "move" /\ locked'["legacy"] = p
        \/ pc'[p] = Log!After(p)
    <3>1. CASE pc' = [pc EXCEPT ![p] = "move"] /\ locked' = [locked EXCEPT !["legacy"] = p]
      BY <1>b, <3>1
    <3>2. CASE pc' = [pc EXCEPT ![p] = Log!After(p)]
      BY <3>2
    <3>. QED
      BY <1>4, <3>1, <3>2, SplitDoes
  <2>. QED
    BY <1>o, <2>1, <2>2, <2>3 DEF LockInv, Moving
<1>5. CASE Log!LockCurrent(p) \/ Log!Truncate(p)
  <2>1. /\ pc[p] \in {"move", "truncate"} /\ UNCHANGED <<version, phase>>
        /\ pc[p] = "move" => moving[p] = <<>>
        /\ pc'[p] \in {"truncate", "rewrite"} /\ locked'["legacy"] = locked["legacy"]
        /\ locked'["current"] = p
    BY <1>5, <1>b DEF Log!LockCurrent, Log!Truncate, LockInv
  <2>2. phase[p] = "ready" /\ version[p] # "old" /\ locked["legacy"] = p
    BY <2>1 DEF LockInv, Log!Appends, Moving
  <2>. QED
    BY <1>o, <2>1, <2>2 DEF LockInv
<1>6. CASE Log!Rewrite(p)
  <2>1. /\ pc[p] = "rewrite" /\ UNCHANGED <<version, phase>> /\ pc'[p] = Log!After(p)
        /\ Log!After(p) \in {"append", "readLegacy"}
    BY <1>6 DEF Log!Rewrite, Log!After
  <2>2. phase[p] = "ready" /\ version[p] # "old"
    BY <2>1 DEF LockInv, Log!Appends
  <2>. QED
    BY <1>o, <2>1, <2>2 DEF LockInv, Moving
<1>7. CASE \/ Log!BeginAppend(p) \/ Log!Upgrade(p) \/ Log!BeginLookup(p) \/ Log!ReadLegacy(p)
           \/ Log!ReadCurrent(p) \/ Log!EndLookup(p)
  <2>1. /\ pc[p] \in {"idle", "readLegacy", "readCurrent", "answered"} /\ UNCHANGED phase
        /\ pc'[p] \in {"idle", "append", "migrate", "readCurrent", "answered"}
        /\ version'[p] = "old" => version[p] = "old" /\ pc'[p] \in {"idle", "append"}
    BY <1>7 DEF Log!BeginAppend, Log!Upgrade, Log!BeginLookup, Log!MayRecord, Log!ReadLegacy,
       Log!ReadCurrent, Log!EndLookup, LockInv
  <2>2. phase[p] = "ready"
    BY <2>1 DEF LockInv, Log!Appends
  <2>. QED
    BY <1>o, <2>1, <2>2 DEF LockInv, Moving
<1>8. CASE Log!Killed(p)
  <2>1. pc'[p] = "down" /\ phase'[p] = "ready"
    BY <1>8 DEF Log!Killed
  <2>. QED
    BY <1>o, <2>1 DEF LockInv, Moving
<1>. QED
  BY <1>1, <1>2, <1>3, <1>4, <1>5, <1>6, <1>7, <1>8 DEF LogStep

(* What a file has stays, is dropped, or is lost with a server; what a     *)
(* migration takes from the legacy file is in the current one.             *)
LEMMA HereStays ==
  ASSUME Log!LogAssumption, LogInv, NEW p \in Servers, LogStep(p)
  PROVE  /\ Here("current") \subseteq Here("current")'
         /\ \A r \in Here("legacy") :
              r \in Here("legacy")' \/ (~Log!LegacyCompatible(r) /\ r \in Here("current"))
<1>. HIDE DEF Log!Row
<1>. Log!TypeOK /\ LockInv
  BY DEF LogInv
<1>b. /\ "legacy" \in Log!Files /\ "current" \in Log!Files /\ Log!Nobody \notin Servers
      /\ Log!Target(p) \in Log!Files
      /\ \A f \in Log!Files : locked[f] \in Servers \cup {Log!Nobody}
      /\ \A f \in Log!Files : dropped[f] \subseteq dropped'[f] /\ lost[f] \subseteq lost'[f]
  BY TargetIsFile, OthersStand DEF Log!LogAssumption
<1>. /\ pc \in [Servers -> Log!Steps] /\ file \in [Log!Files -> Seq(Log!Row)]
     /\ phase \in [Servers -> {"ready", "emptied", "refilled"}]
     /\ retained \in [Servers -> Seq(Log!Row)]
     /\ locked \in [Log!Files -> Servers \cup {Log!Nobody}]
     /\ dropped \in [Log!Files -> SUBSET Log!Row] /\ lost \in [Log!Files -> SUBSET Log!Row]
  BY DEF Log!TypeOK
\* A file that another server has locked is as it was, and so is that server.
<1>1. ASSUME NEW f \in Log!Files, locked[f] \notin {p, Log!Nobody}
      PROVE  Here(f) \subseteq Here(f)'
  <2>1. locked[f] \in Servers \ {p} /\ file'[f] = file[f] /\ locked'[f] = locked[f]
    BY <1>b, <1>1, OthersStand
  <2>2. Log!InHand(locked[f], f)' = Log!InHand(locked[f], f)
    BY <2>1, OthersStand DEF Log!InHand, Log!Target
  <2>3. Log!Held(f)' = Log!Held(f)
    BY <2>1, <2>2 DEF Log!Held
  <2>. QED
    BY <1>b, <2>1, <2>3 DEF Here, Log!Retains
\* One that nobody holds, or that this server does, with what it has of it.
<1>2. ASSUME NEW f \in Log!Files, locked[f] \in {p, Log!Nobody},
             Range(file[f]) \cup Log!Held(f) \subseteq
               Range(file'[f]) \cup Log!Held(f)' \cup dropped'[f] \cup lost'[f]
      PROVE  Here(f) \subseteq Here(f)'
  BY <1>b, <1>2, RangeIsRange DEF Here, Log!Retains
<1>3. \A f \in Log!Files : phase[p] # "emptied" /\ pc[p] # "rewrite" /\ locked[f] \in {p, Log!Nobody}
        => Log!Held(f) = {}
  BY DEF Log!Held, Log!InHand
<1>a. Log!Appends(p) => pc[p] # "rewrite"
  BY DEF Log!Appends
<1>4. ASSUME Log!Empty(p), NEW f \in Log!Files
      PROVE  Here(f) \subseteq Here(f)'
  <2>1. PICK g \in Log!Files, head \in Log!Row, tail \in Seq(Log!Row) : Empties(p, g, head, tail)
    BY <1>4, EmptyDoes
  <2>. USE DEF Empties
  <2>2. phase[p] # "emptied" /\ pc[p] # "rewrite"
    BY <1>a, <2>1
  <2>3. CASE f = g
    <3>1. Log!Target(p)' = f /\ phase'[p] = "emptied" /\ retained'[p] = tail
      BY <2>1, <2>3 DEF Log!Target
    <3>2. locked'[f] = p /\ dropped'[f] = dropped[f] \cup {head}
      BY <2>1, <2>3
    <3>3. Log!InHand(p, f)' = Range(tail)
      BY <3>1, RangeIsRange DEF Log!InHand
    <3>4. Log!Held(f)' = Range(tail)
      BY <1>b, <3>2, <3>3 DEF Log!Held
    <3>5. Log!Held(f) = {} /\ locked[f] = Log!Nobody /\ Range(file[f]) = {head} \cup Range(tail)
      BY <1>3, <2>1, <2>2, <2>3
    <3>. QED
      BY <1>2, <3>2, <3>4, <3>5
  <2>4. CASE f # g
    <3>1. file'[f] = file[f]
      BY <2>1, <2>4
    <3>. QED
      BY <1>1, <1>2, <1>3, <2>2, <3>1
  <2>. QED
    BY <2>3, <2>4
<1>5. ASSUME Log!WriteBack(p), NEW f \in Log!Files
      PROVE  Here(f) \subseteq Here(f)'
  <2>1. /\ phase[p] = "emptied" /\ file' = [file EXCEPT ![Log!Target(p)] = retained[p]]
        /\ Log!Appends(p) /\ locked[Log!Target(p)] = p /\ file[Log!Target(p)] = <<>>
    BY <1>5 DEF Log!WriteBack, LockInv
  <2>2. CASE f = Log!Target(p)
    <3>1. Log!Held(f) = Range(retained[p])
      BY <1>b, <2>1, <2>2, RangeIsRange DEF Log!Held, Log!InHand
    <3>2. Range(file[f]) = {} /\ file'[f] = retained[p]
      BY <2>1, <2>2, RangeIsIn
    <3>. QED
      BY <1>2, <2>1, <2>2, <3>1, <3>2
  <2>3. CASE f # Log!Target(p)
    <3>1. locked[f] \in {p, Log!Nobody} => Log!Held(f) = {}
      BY <1>a, <2>1, <2>3 DEF Log!Held, Log!InHand
    <3>2. file'[f] = file[f]
      BY <2>1, <2>3
    <3>. QED
      BY <1>1, <1>2, <3>1, <3>2
  <2>. QED
    BY <2>2, <2>3
<1>6. ASSUME Log!AppendRow(p), NEW f \in Log!Files
      PROVE  Here(f) \subseteq Here(f)'
  <2>1. PICK g \in Log!Files : AppendsTo(p, g)
    BY <1>6, AppendRowDoes
  <2>2. phase[p] # "emptied" /\ pc[p] # "rewrite" /\ Range(file[f]) \subseteq Range(file'[f])
    BY <1>a, <2>1 DEF AppendsTo
  <2>. QED
    BY <1>1, <1>2, <1>3, <2>2
<1>7. ASSUME Log!Rewrite(p), NEW f \in Log!Files
      PROVE  Here(f) \subseteq Here(f)'
  <2>1. /\ pc[p] = "rewrite" /\ file' = [file EXCEPT !["legacy"] = kept[p]]
        /\ locked["legacy"] = p /\ locked["current"] = p /\ file["legacy"] = <<>>
        /\ phase[p] = "ready"
    BY <1>7, <1>a DEF Log!Rewrite, LockInv, Moving, LogInv, MoveInv
  <2>2. Log!InHand(p, "legacy") = Range(kept[p]) /\ Log!InHand(p, "current") = {}
    BY <2>1, RangeIsRange DEF Log!InHand
  <2>3. Log!Held("legacy") = Range(kept[p]) /\ Log!Held("current") = {}
    BY <1>b, <2>1, <2>2 DEF Log!Held
  <2>4. /\ file'["legacy"] = kept[p] /\ file'["current"] = file["current"]
        /\ Range(file["legacy"]) = {}
    BY <1>b, <2>1, RangeIsIn
  <2>5. f = "legacy" \/ f = "current"
    BY DEF Log!Files
  <2>. QED
    BY <1>2, <2>1, <2>3, <2>4, <2>5
<1>8. ASSUME Log!Killed(p), NEW f \in Log!Files
      PROVE  Here(f) \subseteq Here(f)'
  <2>1. lost'[f] = lost[f] \cup Log!InHand(p, f) /\ file'[f] = file[f]
    BY <1>8 DEF Log!Killed
  <2>2. locked[f] \in {p, Log!Nobody} => Log!Held(f) \subseteq lost'[f]
    BY <2>1 DEF Log!Held
  <2>. QED
    BY <1>1, <1>2, <2>1, <2>2
<1>9. ASSUME \/ Log!BeginAppend(p) \/ Log!Upgrade(p) \/ Log!BeginLookup(p) \/ Log!Split(p)
             \/ Log!LockCurrent(p) \/ Log!ReadLegacy(p) \/ Log!ReadCurrent(p) \/ Log!EndLookup(p),
             NEW f \in Log!Files
      PROVE  Here(f) \subseteq Here(f)'
  <2>1. /\ pc[p] \in {"idle", "migrate", "move", "readLegacy", "readCurrent", "answered"}
        /\ pc[p] = "move" => moving[p] = <<>>
        /\ UNCHANGED file
    BY <1>9, SplitDoes DEF Log!BeginAppend, Log!Upgrade, Log!BeginLookup, Log!MayRecord,
       Log!LockCurrent, Log!ReadLegacy, Log!ReadCurrent, Log!EndLookup
  <2>2. phase[p] # "emptied" /\ pc[p] # "rewrite"
    BY <2>1 DEF LockInv, Log!Appends
  <2>. QED
    BY <1>1, <1>2, <1>3, <2>1, <2>2
<1>10. CASE Log!Truncate(p)
  <2>1. /\ pc[p] = "truncate" /\ file' = [file EXCEPT !["legacy"] = <<>>]
        /\ pc'[p] = "rewrite" /\ UNCHANGED <<locked, phase, kept>>
        /\ locked["legacy"] = p /\ locked["current"] = p /\ phase[p] = "ready"
    BY <1>10 DEF Log!Truncate, LockInv, Moving, Log!Appends
  <2>2. Log!Held("legacy") = {} /\ Log!Held("current") = {}
    BY <1>3, <1>b, <2>1
  <2>3. Log!Held("legacy")' = Range(kept[p])
    BY <1>b, <2>1, RangeIsRange DEF Log!Held, Log!InHand
  <2>4. Here("current") \subseteq Here("current")'
    BY <1>2, <1>b, <2>1, <2>2
  <2>5. ASSUME NEW r \in Range(file["legacy"])
        PROVE  r \in Range(kept[p]) \/ (~Log!LegacyCompatible(r) /\ r \in Here("current"))
    <3>1. MoveInv
      BY DEF LogInv
    <3>. QED
      BY <2>1, <3>1, Zenon DEF MoveInv
  <2>6. /\ Here("legacy") = Range(file["legacy"]) \cup dropped["legacy"] \cup lost["legacy"]
        /\ Range(kept[p]) \cup dropped'["legacy"] \cup lost'["legacy"] \subseteq Here("legacy")'
    BY <2>2, <2>3, RangeIsRange DEF Here, Log!Retains
  <2>7. dropped["legacy"] \subseteq dropped'["legacy"] /\ lost["legacy"] \subseteq lost'["legacy"]
    BY <1>b
  <2>8. ASSUME NEW r \in Here("legacy")
        PROVE  r \in Here("legacy")' \/ (~Log!LegacyCompatible(r) /\ r \in Here("current"))
    <3>1. r \in Range(file["legacy"]) \/ r \in dropped'["legacy"] \cup lost'["legacy"]
      BY <2>6, <2>7
    <3>. QED
      BY <2>5, <2>6, <3>1
  <2>. QED
    BY <2>4, <2>8
<1>11. ASSUME ~Log!Truncate(p), NEW f \in Log!Files
       PROVE  Here(f) \subseteq Here(f)'
  BY <1>4, <1>5, <1>6, <1>7, <1>8, <1>9, <1>11 DEF LogStep
<1>. QED
  BY <1>b, <1>10, <1>11

(* The legacy file is the migration's own, and the current one keeps what  *)
(* was moved to it.                                                        *)
LEMMA MoveStep ==
  ASSUME Log!LogAssumption, LogInv, NEW p \in Servers, LogStep(p)
  PROVE  MoveInv'
<1>. HIDE DEF Log!Row
<1>. Log!TypeOK /\ LockInv /\ MoveInv
  BY DEF LogInv
<1>b. "legacy" \in Log!Files /\ "current" \in Log!Files /\ Log!Nobody \notin Servers
  BY TargetIsFile DEF Log!LogAssumption
<1>. /\ pc \in [Servers -> Log!Steps] /\ moving \in [Servers -> Seq(Log!Row)]
     /\ kept \in [Servers -> Seq(Log!Row)] /\ file \in [Log!Files -> Seq(Log!Row)]
  BY DEF Log!TypeOK
<1>a. Here("current") \subseteq Here("current")'
  BY HereStays
<1> DEFINE Moved(q) ==
      /\ pc[q] \in {"move", "truncate"} =>
           \A r \in Range(file["legacy"]) :
             IF Log!LegacyCompatible(r) THEN r \in Range(kept[q])
             ELSE \/ r \in Here("current")
                  \/ pc[q] = "move" /\ r \in Range(moving[q])
      /\ pc[q] = "rewrite" => file["legacy"] = <<>>
<1>o. ASSUME NEW q \in Servers, pc[q] \in Moving, UNCHANGED file["legacy"],
             UNCHANGED <<pc[q], kept[q], moving[q]>>
      PROVE  Moved(q)'
  BY <1>a, <1>o DEF MoveInv
<1>1. ASSUME NEW q \in Servers \ {p}
      PROVE  Moved(q)'
  <2>1. CASE pc[q] \in Moving
    <3>1. locked["legacy"] = q
      BY <2>1 DEF LockInv
    <3>. QED
      BY <1>b, <1>o, <2>1, <3>1, OthersStand
  <2>2. CASE pc[q] \notin Moving
    <3>1. pc'[q] \notin Moving
      BY <2>2, OthersStand
    <3>. QED
      BY <3>1 DEF Moving
  <2>. QED
    BY <2>1, <2>2
<1>2. CASE Log!Split(p)
  <2>1. /\ moving'[p] = Log!Rows(file["legacy"], FALSE) /\ UNCHANGED file
        /\ kept'[p] = Log!Rows(file["legacy"], TRUE)
    BY <1>2, SplitDoes
  <2>2. pc'[p] = "move" \/ pc'[p] \notin Moving
    <3>1. CASE pc' = [pc EXCEPT ![p] = "move"]
      BY <3>1
    <3>2. CASE pc' = [pc EXCEPT ![p] = Log!After(p)]
      BY <3>2 DEF Log!After, Moving
    <3>. QED
      BY <1>2, <3>1, <3>2, SplitDoes
  <2>3. \A r \in Range(file["legacy"]) : IF Log!LegacyCompatible(r) THEN r \in Range(kept'[p])
                                         ELSE r \in Range(moving'[p])
    BY <1>b, <2>1, RowsAreSplit
  <2>4. Moved(p)'
    BY <2>1, <2>2, <2>3 DEF Moving
  <2>. QED
    BY <1>1, <2>4 DEF MoveInv
<1>3. CASE Log!AppendRow(p) /\ pc[p] = "move"
  <2>1. PICK f \in Log!Files : AppendsTo(p, f)
    BY <1>3, AppendRowDoes
  <2>2. /\ Log!Appends(p) /\ f = "current" /\ Log!RowOf(p) \in Range(file'[f])
        /\ file'["legacy"] = file["legacy"] /\ UNCHANGED kept
    BY <1>b, <1>3, <2>1, RowOfIsRow DEF AppendsTo
  <2>3. moving' = [moving EXCEPT ![p] = Tail(moving[p])] /\ UNCHANGED pc
    BY <1>3, AppendRowDoes, GoOnDoes
  <2>4. Range(moving[p]) = {Log!RowOf(p)} \cup Range(moving'[p])
    BY <1>3, <2>2, <2>3, RowOfIsRow
  <2>5. Log!RowOf(p) \in Here("current")'
    BY <2>2, RangeIsRange DEF Here, Log!Retains
  <2>6. Moved(p)'
    BY <1>a, <1>3, <2>2, <2>3, <2>4, <2>5 DEF MoveInv
  <2>. QED
    BY <1>1, <2>6 DEF MoveInv
<1>4. CASE Log!LockCurrent(p)
  <2>1. /\ pc[p] = "move" /\ moving[p] = <<>> /\ pc'[p] = "truncate"
        /\ UNCHANGED <<file, kept>>
    BY <1>4 DEF Log!LockCurrent
  <2>2. Range(moving[p]) = {}
    BY <2>1, RangeIsIn
  <2>3. Moved(p)'
    BY <1>a, <2>1, <2>2 DEF MoveInv
  <2>. QED
    BY <1>1, <2>3 DEF MoveInv
<1>5. CASE Log!Truncate(p)
  <2>1. pc'[p] = "rewrite" /\ file'["legacy"] = <<>>
    BY <1>b, <1>5 DEF Log!Truncate
  <2>. QED
    BY <1>1, <2>1 DEF MoveInv
<1>6. CASE /\ pc[p] = "move"
           /\ Log!Empty(p) \/ Log!WriteBack(p)
  <2>1. Log!Appends(p) /\ Log!Target(p) = "current"
    <3>1. Log!Appends(p)
      BY <1>6 DEF Log!Empty, Log!WriteBack, LockInv
    <3>. QED
      BY <1>6, <3>1, RowOfIsRow
  <2>2. UNCHANGED <<pc, kept, moving>> /\ file'["legacy"] = file["legacy"]
    BY <1>b, <1>6, <2>1 DEF Log!Empty, Log!WriteBack
  <2>3. Moved(p)'
    BY <1>6, <1>o, <2>2 DEF Moving
  <2>. QED
    BY <1>1, <2>3 DEF MoveInv
<1>7. CASE ~Log!Split(p) /\ ~Log!LockCurrent(p) /\ ~Log!Truncate(p) /\ pc[p] # "move"
  <2>1. pc'[p] \notin Moving
    <3>1. CASE Log!AppendRow(p)
      BY <1>7, <3>1, AppendRowDoes, GoOnDoes DEF Moving
    <3>2. CASE Log!Empty(p) \/ Log!WriteBack(p)
      <4>1. Log!Appends(p) /\ UNCHANGED pc
        BY <3>2 DEF Log!Empty, Log!WriteBack, LockInv
      <4>. QED
        BY <1>7, <4>1 DEF Log!Appends, Moving
    <3>3. CASE Log!Rewrite(p)
      BY <3>3 DEF Log!Rewrite, Log!After, Moving
    <3>4. CASE \/ Log!BeginAppend(p) \/ Log!BeginLookup(p) \/ Log!Upgrade(p) \/ Log!ReadLegacy(p)
               \/ Log!ReadCurrent(p) \/ Log!EndLookup(p) \/ Log!Killed(p)
      BY <3>4 DEF Log!BeginAppend, Log!BeginLookup, Log!Upgrade, Log!ReadLegacy,
         Log!ReadCurrent, Log!EndLookup, Log!Killed, Moving
    <3>. QED
      BY <1>7, <3>1, <3>2, <3>3, <3>4 DEF LogStep
  <2>. QED
    BY <1>1, <2>1 DEF MoveInv, Moving
<1>8. CASE pc[p] = "move" /\ Log!Killed(p)
  <2>1. pc'[p] = "down"
    BY <1>8 DEF Log!Killed
  <2>. QED
    BY <1>1, <2>1 DEF MoveInv
<1>9. pc[p] = "move" => \/ Log!AppendRow(p) \/ Log!LockCurrent(p) \/ Log!Empty(p)
                        \/ Log!WriteBack(p) \/ Log!Killed(p)
  BY DEF LogStep, Log!BeginAppend, Log!MayRecord, Log!Upgrade, Log!BeginLookup, Log!Split,
     Log!Truncate, Log!Rewrite, Log!ReadLegacy, Log!ReadCurrent, Log!EndLookup
<1>. QED
  BY <1>2, <1>3, <1>4, <1>5, <1>6, <1>7, <1>8, <1>9

(* Rows are where they were, and one whose append returns is there.        *)
LEMMA RowStep ==
  ASSUME Log!LogAssumption, LogInv, NEW p \in Servers, LogStep(p)
  PROVE  RowInv'
<1>. HIDE DEF Log!Row
<1>. Log!TypeOK /\ LockInv /\ RowInv
  BY DEF LogInv
<1>. pc \in [Servers -> Log!Steps] /\ row \in [Servers -> Log!Row \cup {NoRow}]
  BY DEF Log!TypeOK
<1>a. ASSUME NEW r, Placed(r)
      PROVE  Placed(r)'
  BY <1>a, HereStays DEF Placed, Log!LegacyCompatible
<1>b. \A r \in acked : Placed(r)'
  BY <1>a DEF RowInv
<1>c. \A q \in Servers \ {p} : pc'[q] = pc[q] /\ row'[q] = row[q]
  BY OthersStand
<1>1. CASE Log!AppendRow(p)
  <2>1. PICK f \in Log!Files : AppendsTo(p, f)
    BY <1>1, AppendRowDoes
  <2>2. /\ Log!RowOf(p) \in Log!Row /\ Log!RowOf(p) \in Range(file'[f])
        /\ f = Log!Target(p) /\ f \in {"legacy", "current"} /\ Log!Appends(p)
    BY <2>1, RowOfIsRow DEF AppendsTo, Log!Files
  <2>3. Log!RowOf(p) \in Here(f)'
    BY <2>2, RangeIsRange DEF Here, Log!Retains
  <2>4. CASE pc[p] = "move" /\ UNCHANGED <<pc, row, acked>>
    BY <1>b, <2>4 DEF RowInv
  <2>5. CASE /\ pc[p] # "move" /\ pc' = [pc EXCEPT ![p] = "appendLegacy"]
             /\ UNCHANGED <<row, acked>>
    <3>1. row[p] \in Log!Row
      BY <2>2, <2>5 DEF Log!RowOf
    <3>. QED
      BY <1>b, <1>c, <2>5, <3>1 DEF RowInv
  <2>6. CASE /\ pc[p] # "move" /\ pc' = [pc EXCEPT ![p] = "idle"]
             /\ Log!Target(p) # "current" \/ ~Log!LegacyCompatible(row[p])
             /\ acked' = acked \cup {row[p]}
    <3>1. row[p] \in Here(f)'
      BY <2>3, <2>6 DEF Log!RowOf
    <3>2. f = "legacy" \/ ~Log!LegacyCompatible(row[p])
      BY <2>2, <2>6
    <3>3. ASSUME NEW r \in acked'
          PROVE  Placed(r)'
      <4>1. CASE r \in acked
        BY <1>b, <4>1
      <4>2. CASE r = row[p]
        <5>1. r \in Here(f)' /\ (f = "legacy" \/ ~Log!LegacyCompatible(r))
          BY <3>1, <3>2, <4>2
        <5>. QED
          BY <2>2, <5>1 DEF Placed, Log!LegacyCompatible
      <4>. QED
        BY <2>6, <3>3, <4>1, <4>2
    <3>. QED
      BY <1>c, <2>6, <3>3 DEF RowInv
  <2>. QED
    BY <1>1, <2>4, <2>5, <2>6, AppendRowDoes, GoOnDoes
<1>2. CASE Log!Split(p) \/ Log!Rewrite(p)
  <2>1. UNCHANGED <<row, acked>>
    BY <1>2, SplitDoes DEF Log!Rewrite
  <2>2. pc'[p] \in {Log!After(p), "move"}
    <3>1. CASE Log!Rewrite(p)
      BY <3>1 DEF Log!Rewrite
    <3>2. CASE Log!Split(p) /\ pc' = [pc EXCEPT ![p] = "move"]
      BY <3>2
    <3>3. CASE Log!Split(p) /\ pc' = [pc EXCEPT ![p] = Log!After(p)]
      BY <3>3
    <3>. QED
      BY <1>2, <3>1, <3>2, <3>3, SplitDoes
  <2>3. pc'[p] \in {"append", "appendLegacy"} => row'[p] \in Log!Row
    BY <2>1, <2>2 DEF Log!After
  <2>. QED
    BY <1>b, <1>c, <2>1, <2>3 DEF RowInv
<1>3. CASE Log!BeginAppend(p)
  <2>1. PICK s \in Sessions, cleanup \in {"retained", "removed"} :
          Log!MayRecord(p, s) /\ row' = [row EXCEPT ![p] = Log!NextRow(s, cleanup)]
    BY <1>3 DEF Log!BeginAppend
  <2>2. row'[p] \in Log!Row
    BY <2>1, NextRowIsRow
  <2>3. UNCHANGED acked
    BY <1>3 DEF Log!BeginAppend
  <2>. QED
    BY <1>b, <1>c, <2>2, <2>3 DEF RowInv
<1>4. CASE \/ Log!Upgrade(p) \/ Log!BeginLookup(p) \/ Log!Empty(p) \/ Log!WriteBack(p)
           \/ Log!LockCurrent(p) \/ Log!Truncate(p) \/ Log!ReadLegacy(p) \/ Log!ReadCurrent(p)
           \/ Log!EndLookup(p) \/ Log!Killed(p)
  <2>1. /\ UNCHANGED acked
        /\ pc'[p] \in {"append", "appendLegacy"} => pc'[p] = pc[p] /\ row'[p] = row[p]
    BY <1>4 DEF Log!Upgrade, Log!BeginLookup, Log!Empty, Log!WriteBack, Log!LockCurrent,
       Log!Truncate, Log!ReadLegacy, Log!ReadCurrent, Log!EndLookup, Log!Killed
  <2>. QED
    BY <1>b, <1>c, <2>1 DEF RowInv
<1>. QED
  BY <1>1, <1>2, <1>3, <1>4 DEF LogStep

(* A lookup reads the legacy file first, and what a migration takes out of *)
(* it is in the current one by then.                                       *)
LEMMA LookupStep ==
  ASSUME Log!LogAssumption, LogInv, NEW p \in Servers, LogStep(p)
  PROVE  LookupInv'
<1>. HIDE DEF Log!Row
<1>. Log!TypeOK /\ LockInv /\ RowInv /\ LookupInv
  BY DEF LogInv
<1>. /\ pc \in [Servers -> Log!Steps] /\ known \in [Servers -> SUBSET Log!Row]
     /\ found \in [Servers -> Log!Row \cup {NoRow}] /\ asked \in [Servers -> Sessions \cup {NoRow}]
     /\ file["legacy"] \in Seq(Log!Row) /\ file["current"] \in Seq(Log!Row)
  BY DEF Log!TypeOK, Log!Files
<1>a. /\ acked \subseteq acked' /\ Here("current") \subseteq Here("current")'
      /\ \A r : Gone(r) => Gone(r)'
  BY OthersStand, HereStays DEF Gone
<1> DEFINE Knows(q) ==
      /\ \A r \in known[q] : r \in acked /\ r.session = asked[q]
      /\ pc[q] = "readCurrent" =>
           \A r \in known[q] : Covers(found[q], r) \/ r \in Here("current") \/ Gone(r)
      /\ pc[q] = "answered" => \A r \in known[q] : Covers(found[q], r) \/ Gone(r)
<1>o. ASSUME NEW q \in Servers, UNCHANGED <<found[q], asked[q], known[q]>>,
             pc'[q] = pc[q] \/ pc'[q] \notin {"readCurrent", "answered"}
      PROVE  Knows(q)'
  BY <1>a, <1>o DEF LookupInv, Covers
<1>1. \A q \in Servers \ {p} : Knows(q)'
  BY <1>o, OthersStand
<1>2. CASE Log!BeginLookup(p)
  <2>1. PICK s \in Sessions :
          /\ asked' = [asked EXCEPT ![p] = s]
          /\ known' = [known EXCEPT ![p] = {r \in acked : r.session = s}]
    BY <1>2 DEF Log!BeginLookup
  <2>2. pc'[p] = "migrate" /\ UNCHANGED acked
    BY <1>2 DEF Log!BeginLookup
  <2>3. Knows(p)'
    BY <2>1, <2>2
  <2>. QED
    BY <1>1, <2>3 DEF LookupInv
<1>3. CASE Log!ReadLegacy(p)
  <2>1. /\ found'[p] = Log!Latest(file["legacy"], asked[p]) /\ locked["legacy"] = Log!Nobody
        /\ pc'[p] = "readCurrent" /\ UNCHANGED <<asked, known>>
    BY <1>3 DEF Log!ReadLegacy
  <2>2. ASSUME NEW r \in known[p]
        PROVE  Covers(found'[p], r) \/ r \in Here("current") \/ Gone(r)
    <3>1. r \in acked /\ r.session = asked[p]
      BY DEF LookupInv
    <3>2. r \in Range(file["legacy"]) => Covers(found'[p], r)
      BY <2>1, <3>1, LatestCovers
    <3>3. r \in Here("legacy") => r \in Range(file["legacy"]) \/ Gone(r)
      BY <2>1, RangeIsRange DEF Here, Log!Retains, Log!Held, Gone, Log!Files
    <3>. QED
      BY <3>1, <3>2, <3>3 DEF RowInv, Placed
  <2>3. Knows(p)'
    BY <1>a, <2>1, <2>2 DEF LookupInv, Covers
  <2>. QED
    BY <1>1, <2>3 DEF LookupInv
<1>4. CASE Log!ReadCurrent(p)
  <2> DEFINE now == Log!Latest(file["current"], asked[p])
  <2>1. /\ pc[p] = "readCurrent" /\ pc'[p] = "answered" /\ locked["current"] = Log!Nobody
        /\ found'[p] = IF now = NoRow THEN found[p] ELSE Log!Better(now, found[p])
        /\ UNCHANGED <<asked, known>>
    BY <1>4 DEF Log!ReadCurrent
  <2>2. /\ now \in Log!Row \cup {NoRow}
        /\ \A r \in Range(file["current"]) : r.session = asked[p] => Covers(now, r)
    BY LatestCovers
  <2>. HIDE DEF now
  <2>3. ASSUME NEW r \in known[p]
        PROVE  Covers(found'[p], r) \/ Gone(r)
    <3>1. /\ r \in Log!Row /\ r.session = asked[p]
          /\ Covers(found[p], r) \/ r \in Here("current") \/ Gone(r)
      BY <2>1 DEF LookupInv
    <3>2. r \in Here("current") => r \in Range(file["current"]) \/ Gone(r)
      BY <2>1, RangeIsRange DEF Here, Log!Retains, Log!Held, Gone, Log!Files
    <3>3. CASE now = NoRow
      <4>1. r \notin Range(file["current"])
        BY <2>2, <3>1, <3>3 DEF Covers
      <4>. QED
        BY <2>1, <3>1, <3>2, <3>3, <4>1
    <3>4. CASE now # NoRow
      <4>1. now \in Log!Row /\ found[p] \in Log!Row \cup {NoRow}
        BY <2>2, <3>4
      <4>2. Covers(found[p], r) => Covers(found'[p], r)
        BY <2>1, <3>1, <3>4, <4>1, BetterCovers
      <4>3. /\ Log!Better(now, found[p]) \in Log!Row
            /\ Covers(Log!Better(now, found[p]), now)
        BY <4>1, BetterCovers
      <4>4. Log!Supersedes(now, r) => Covers(found'[p], r)
        BY <2>1, <3>1, <3>4, <4>1, <4>3, SupersedesIsAnOrder DEF Covers
      <4>5. r \in Range(file["current"]) => Log!Supersedes(now, r)
        BY <2>2, <3>1 DEF Covers
      <4>. QED
        BY <3>1, <3>2, <4>2, <4>4, <4>5
    <3>. QED
      BY <3>3, <3>4
  <2>4. Knows(p)'
    BY <1>a, <2>1, <2>3 DEF LookupInv, Covers
  <2>. QED
    BY <1>1, <2>4 DEF LookupInv
<1>5. CASE Log!EndLookup(p)
  <2>1. known'[p] = {} /\ pc'[p] = "idle"
    BY <1>5 DEF Log!EndLookup
  <2>. QED
    BY <1>1, <2>1 DEF LookupInv
<1>6. CASE Log!AppendRow(p)
  <2>1. UNCHANGED <<asked, known, found>>
    BY <1>6, AppendRowDoes DEF AppendsTo
  <2>2. pc'[p] = pc[p] \/ pc'[p] \in {"idle", "appendLegacy"}
    BY <1>6, AppendRowDoes, GoOnDoes
  <2>. QED
    BY <1>o, <1>1, <2>1, <2>2 DEF LookupInv
<1>7. CASE Log!Split(p)
  <2>1. UNCHANGED <<asked, known, found>>
    BY <1>7, SplitDoes
  <2>2. pc'[p] \notin {"readCurrent", "answered"}
    <3>1. CASE pc' = [pc EXCEPT ![p] = "move"]
      BY <3>1
    <3>2. CASE pc' = [pc EXCEPT ![p] = Log!After(p)]
      BY <3>2 DEF Log!After
    <3>. QED
      BY <1>7, <3>1, <3>2, SplitDoes
  <2>. QED
    BY <1>o, <1>1, <2>1, <2>2 DEF LookupInv
<1>8. CASE \/ Log!BeginAppend(p) \/ Log!Upgrade(p) \/ Log!Empty(p) \/ Log!WriteBack(p)
           \/ Log!LockCurrent(p) \/ Log!Truncate(p) \/ Log!Rewrite(p) \/ Log!Killed(p)
  <2>1. /\ UNCHANGED <<asked, known, found>>
        /\ pc'[p] = pc[p] \/ pc'[p] \notin {"readCurrent", "answered"}
    BY <1>8 DEF Log!BeginAppend, Log!Upgrade, Log!Empty, Log!WriteBack, Log!LockCurrent,
       Log!Truncate, Log!Rewrite, Log!After, Log!Killed, Log!lookupVars
  <2>. QED
    BY <1>o, <1>1, <2>1 DEF LookupInv
<1>. QED
  BY <1>2, <1>3, <1>4, <1>5, <1>6, <1>7, <1>8 DEF LogStep

LEMMA LogInvStep ==
  ASSUME Log!LogAssumption, LogInv, [Log!Next]_(Log!vars)
  PROVE  LogInv'
<1>1. ASSUME NEW p \in Servers, LogStep(p)
      PROVE  LogInv'
  BY <1>1, LogTypeStep, LockStep, MoveStep, RowStep, LookupStep DEF LogInv
<1>2. CASE UNCHANGED Log!vars
  <2>. USE <1>2 DEF Log!vars, Log!lookupVars
  <2>1. Log!TypeOK'
    BY DEF LogInv, Log!TypeOK
  <2>2. \A f : Here(f)' = Here(f)
    BY DEF Here, Log!Retains, Log!Held, Log!InHand, Log!Target
  <2>3. LockInv'
    BY DEF LogInv, LockInv, Log!Target, Log!Appends
  <2>4. MoveInv'
    BY <2>2 DEF LogInv, MoveInv
  <2>5. RowInv' /\ LookupInv'
    BY <2>2 DEF LogInv, RowInv, Placed, LookupInv, Covers, Gone
  <2>. QED
    BY <2>1, <2>3, <2>4, <2>5 DEF LogInv
<1>. QED
  BY <1>1, <1>2 DEF Log!Next, LogStep

(* A row whose append returned is in its file until it made room for later *)
(* ones, or was in the memory of a server that was killed while it rewrote *)
(* the file: migrations move rows between the files and rotations empty    *)
(* and refill them in steps, and other servers append and look up between  *)
(* any two (append_lifecycle_record, migrate_legacy_lifecycle_records).    *)
(* RecentRowsRetained, which does not except such a kill, does not hold.   *)
THEOREM RecordedRowsAreKept ==
  ASSUME Log!LogAssumption
  PROVE  Log!Spec => []RecordedRowsSurvive
<1>1. LogInv => RecordedRowsSurvive
  <2> SUFFICES ASSUME LogInv, NEW r \in acked
               PROVE  Log!Survives(r, [f \in Log!Files |-> Log!Retains(f) \cup lost[f]])
    BY DEF RecordedRowsSurvive, Log!RecordedRowsSurvive
  <2>1. Placed(r)
    BY DEF LogInv, RowInv
  <2>. QED
    BY <2>1 DEF Placed, Here, Log!Survives, Log!Files
<1>2. Log!Init => LogInv
  BY LogStarts
<1>3. LogInv /\ [Log!Next]_(Log!vars) => LogInv'
  BY LogInvStep
<1>. QED
  BY <1>1, <1>2, <1>3, PTL DEF Log!Spec

(* A lookup answers with the latest row that anybody was told is recorded  *)
(* when it began, or a later one, though it reads the two files one after  *)
(* the other while rows are moved from one to the other and the files are  *)
(* emptied and refilled (previous_session_lifecycle,                       *)
(* SessionLifecycleRecord::supersedes); of rows that made room or that a   *)
(* kill took nothing is promised.                                          *)
THEOREM LookupsAreCurrent ==
  ASSUME Log!LogAssumption
  PROVE  Log!Spec => []AnswersAreCurrent
<1>1. LogInv => AnswersAreCurrent
  BY DEF LogInv, LookupInv, Covers, Gone, AnswersAreCurrent, Log!AnswersAreCurrent
<1>2. Log!Init => LogInv
  BY LogStarts
<1>3. LogInv /\ [Log!Next]_(Log!vars) => LogInv'
  BY LogInvStep
<1>. QED
  BY <1>1, <1>2, <1>3, PTL DEF Log!Spec
=============================================================================
