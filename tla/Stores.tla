-------------------------------- MODULE Stores --------------------------------
(***************************************************************************)
(* What several processes of one user keep and use at once: the workdirs   *)
(* (WorkdirSweep), the log of ended sessions, the slot for snapshots of    *)
(* the host wallet, and the wallet of one session. They share no state.    *)
(***************************************************************************)
EXTENDS WorkdirSweep

CONSTANTS
  Copiers, FromSecretService, NoServer,  \* the servers that copy the host's wallet
  Servers, Old, Sessions, Owner, EndedByShutdown, Restamped, Limit, MaxRows, NoRow,
  Calls, Asks, MaxHandles, MaxReloads

VARIABLES
  copying, slot, spaced, unreachable, kwalletd, ksecretd,
  file, locked, version, pc, row, phase, retained, moving, kept, asked, found, rows, acked,
  dropped, lost, known,
  wallet, handles, nextHandle, saved, reloads, stage, ask, reply, settled, before, forgotten

Host == INSTANCE HostWallet WITH Servers <- Copiers, at <- copying, marker <- unreachable

Log == INSTANCE LifecycleLog

Wallet == INSTANCE SessionWallet

(* The properties of the instances, see there.                             *)
HostIsSpared           == Host!HostIsSpared
RecordedRowsSurvive    == Log!RecordedRowsSurvive
RecentRowsRetained     == Log!RecentRowsRetained
AnswersAreCurrent      == Log!AnswersAreCurrent
AnsweredCallsCount     == Wallet!AnsweredCallsCount
WritesStayInTheSession == Wallet!WritesStayInTheSession
=============================================================================
