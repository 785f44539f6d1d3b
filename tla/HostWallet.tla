------------------------------ MODULE HostWallet ------------------------------
(***************************************************************************)
(* The one host contact of wallet_mediator (src/main.rs): the snapshot of  *)
(* the host wallet that every session_start takes. Servers of one user     *)
(* share a lock file, whose modification time spaces the snapshots, and a  *)
(* marker file that says kwalletd6 did not answer of late. kwalletd6 and   *)
(* ksecretd may vanish, wedge or lock the wallet between any two calls.    *)
(* Most host calls have a limit, each way of reading the wallet has one,   *)
(* and so has the whole snapshot: any await may be the last one.           *)
(***************************************************************************)
CONSTANTS
  Servers,
  FromSecretService,  \* those with KWIN_MCP_WALLET_FROM_SECRET_SERVICE set
  NoServer

HostWalletAssumption ==
  FromSecretService \subseteq Servers /\ NoServer \notin Servers

VARIABLES
  at,         \* where each server's snapshot is
  slot,       \* the server that holds the lock file, or NoServer
  spaced,     \* SNAPSHOT_SPACING has passed since the lock file was touched
  marker,     \* kwalletd-unreachable: "none", "fresh", or "old"
  kwalletd,   \* the host's kwalletd6: "absent", "answers" or "wedged"
  ksecretd    \* its ksecretd: "absent", "wedged", "locked" or "unlocked"

hostVars == <<kwalletd, ksecretd>>
vars == <<at, slot, spaced, marker, hostVars>>

Init ==
  /\ at = [s \in Servers |-> "idle"]
  /\ slot = NoServer
  /\ spaced = TRUE
  /\ marker = "none"
  /\ kwalletd = "answers" /\ ksecretd = "unlocked"  \* HostChanges makes the others

AskingKwalletd == {"checking", "opening", "copying", "closing"}
AskingKsecretd == {"finding", "reading", "leaving"}
Reading        == AskingKwalletd \cup AskingKsecretd
Step(s, from, to) == at[s] = from /\ at' = [at EXCEPT ![s] = to]

-----------------------------------------------------------------------------
(* The lock file *)

(* HostSlot::drop touches the file, and the kernel unlocks it.             *)
Release(s) ==
  IF slot = s THEN slot' = NoServer /\ spaced' = FALSE
  ELSE UNCHANGED <<slot, spaced>>

Finish(s) ==
  /\ at' = [at EXCEPT ![s] = "ended"]
  /\ Release(s)

Ask(s) ==
  /\ Step(s, "idle", "waiting")
  /\ UNCHANGED <<slot, spaced, marker, hostVars>>

TakeSlotAtAge(s) ==
  /\ slot = NoServer \/ spaced
  /\ Step(s, "waiting", "spacing") /\ slot' = s
  /\ UNCHANGED <<spaced, marker, hostVars>>

(* A lock file that another server holds is tried again every 100 ms.      *)
TakeSlot(s) ==
  /\ slot = NoServer
  /\ Step(s, "waiting", "spacing") /\ slot' = s
  /\ UNCHANGED <<spaced, marker, hostVars>>

SlotFails(s) ==
  /\ at[s] = "waiting"
  /\ Finish(s)
  /\ UNCHANGED <<marker, hostVars>>

(* The snapshot reads kwalletd6, unless the switch or the marker tells it  *)
(* to go to ksecretd at once.                                              *)
Begin(s) ==
  /\ spaced
  /\ Step(s, "spacing",
          IF s \in FromSecretService \/ marker = "fresh" THEN "finding" ELSE "checking")
  /\ UNCHANGED <<slot, spaced, marker, hostVars>>

-----------------------------------------------------------------------------
(* Reading through kwalletd6 *)

(* A disabled, unlisted or locked wallet, or no ksecretd: a decision, after *)
(* which nothing else is tried.                                            *)
KwalletdRefuses(s) ==
  /\ at[s] = "checking"
  /\ ksecretd = "absent" \/ kwalletd = "answers"
  /\ Finish(s)
  /\ UNCHANGED <<marker, hostVars>>

KwalletdUnlocked(s) ==
  /\ kwalletd = "answers" /\ ksecretd = "unlocked"
  /\ Step(s, "checking", "opening")
  /\ UNCHANGED <<slot, spaced, marker, hostVars>>

KwalletdOpens(s) ==
  /\ kwalletd = "answers"
  /\ Step(s, "opening", "copying")
  /\ UNCHANGED <<slot, spaced, marker, hostVars>>

(* The handle is closed whatever the copy did.                             *)
KwalletdCopied(s) ==
  /\ kwalletd = "answers"
  /\ Step(s, "copying", "closing")
  /\ UNCHANGED <<slot, spaced, marker, hostVars>>

KwalletdClosed(s) ==
  /\ at[s] = "closing"
  /\ Finish(s)
  /\ marker' = "none"
  /\ UNCHANGED hostVars

(* It is absent, an error, a call that takes 3 s, a wallet too large, or   *)
(* 6 s in all: the marker is written, and ksecretd is asked.               *)
KwalletdUnreachable(s) ==
  /\ at[s] \in AskingKwalletd
  /\ at' = [at EXCEPT ![s] = "finding"]
  /\ marker' = "fresh"
  /\ UNCHANGED <<slot, spaced, hostVars>>

-----------------------------------------------------------------------------
(* Reading ksecretd *)

KsecretdFound(s) ==
  /\ ksecretd = "unlocked"
  /\ Step(s, "finding", "reading")
  /\ UNCHANGED <<slot, spaced, marker, hostVars>>

(* The Secret Service session is closed whatever the read did.             *)
KsecretdRead(s) ==
  /\ Step(s, "reading", "leaving")
  /\ UNCHANGED <<slot, spaced, marker, hostVars>>

KsecretdLeft(s) ==
  /\ at[s] = "leaving"
  /\ Finish(s)
  /\ UNCHANGED <<marker, hostVars>>

KsecretdRefuses(s) ==
  /\ at[s] \in AskingKsecretd
  /\ Finish(s)
  /\ UNCHANGED <<marker, hostVars>>

-----------------------------------------------------------------------------
(* SNAPSHOT_BUDGET drops the snapshot where it stands, the slot with it.   *)
BudgetSpent(s) ==
  /\ at[s] \notin {"idle", "ended"}
  /\ Finish(s)
  /\ UNCHANGED <<marker, hostVars>>

(* A server stopped at any step: the kernel unlocks its file, and nobody   *)
(* touches it.                                                             *)
Die(s) ==
  /\ at[s] \notin {"idle", "ended"}
  /\ at' = [at EXCEPT ![s] = "ended"]
  /\ slot' = IF slot = s THEN NoServer ELSE slot
  /\ UNCHANGED <<spaced, marker, hostVars>>

Time ==
  \/ /\ ~spaced
     /\ spaced' = TRUE /\ UNCHANGED marker
  \/ /\ marker = "fresh"
     /\ marker' = "old" /\ UNCHANGED spaced

HostChanges ==
  \/ /\ kwalletd' \in {"absent", "answers", "wedged"} \ {kwalletd}
     /\ UNCHANGED ksecretd
  \/ /\ ksecretd' \in {"absent", "wedged", "locked", "unlocked"} \ {ksecretd}
     /\ UNCHANGED kwalletd

Snapshot(s) ==
  \/ Ask(s) \/ TakeSlot(s) \/ SlotFails(s) \/ Begin(s)
  \/ KwalletdRefuses(s) \/ KwalletdUnlocked(s) \/ KwalletdOpens(s)
  \/ KwalletdCopied(s) \/ KwalletdClosed(s) \/ KwalletdUnreachable(s)
  \/ KsecretdFound(s) \/ KsecretdRead(s) \/ KsecretdLeft(s) \/ KsecretdRefuses(s)

Next ==
  \/ \E s \in Servers : Snapshot(s) \/ BudgetSpent(s) \/ Die(s)
  \/ Time /\ UNCHANGED <<at, slot, hostVars>>
  \/ HostChanges /\ UNCHANGED <<at, slot, spaced, marker>>

Spec == Init /\ [][Next]_vars

-----------------------------------------------------------------------------
(* However many servers start at once, the host's services are asked by    *)
(* one at a time, and nobody asks kwalletd6 while the marker says that it  *)
(* did not answer ("Serializes snapshots across processes", "snapshots     *)
(* read ksecretd directly for this long").                                 *)
HostIsSpared ==
  /\ \A s, t \in Servers : at[s] \in Reading /\ at[t] \in Reading => s = t
  /\ \A s \in Servers : at[s] \in AskingKwalletd => marker # "fresh"
=============================================================================
