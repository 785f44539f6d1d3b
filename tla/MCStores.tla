------------------------------- MODULE MCStores -------------------------------
(***************************************************************************)
(* The stores but for the workdirs, which the run sweep checks: in every   *)
(* behaviour one of them is used.                                          *)
(***************************************************************************)
EXTENDS Stores, Naturals, TLC

CONSTANTS a, b, s, t, c1, c2, c3

VARIABLE part

(* The older server owns the session that is stopped, and its rows have to *)
(* be moved; the newer one shuts down.                                     *)
MCOwner == (s :> a) @@ (t :> b)

(* Three calls of two apps. The first handle is 1.                         *)
Asked(o, h, p) == [op |-> o, handle |-> h, app |-> p]
MCCalls == {c1, c2, c3}
MCAsks ==
  {Asked("open", 0, "a"), Asked("openAsync", 0, "b"), Asked("read", 1, "a"),
   Asked("read", 1, "b"), Asked("write", 1, "a"), Asked("close", 1, "a")}
Callers == Permutations(MCCalls)

ASSUME Host!HostWalletAssumption
ASSUME Log!LogAssumption
ASSUME Wallet!SessionWalletAssumption

hostVars   == <<copying, slot, spaced, unreachable, kwalletd, ksecretd>>
logVars    == <<file, locked, version, pc, row, phase, retained, moving, kept, asked, found,
                rows, acked, dropped, lost, known>>
walletVars == <<wallet, handles, nextHandle, saved, reloads, stage, ask, reply, settled,
                before, forgotten>>

MCInit ==
  /\ part \in {"log", "host", "wallet"}
  /\ Init /\ Host!Init /\ Log!Init /\ Wallet!Init

MCNext ==
  \/ part = "host" /\ Host!Next /\ UNCHANGED <<part, vars, logVars, walletVars>>
  \/ part = "log" /\ Log!Next /\ UNCHANGED <<part, vars, hostVars, walletVars>>
  \/ part = "wallet" /\ Wallet!Next /\ UNCHANGED <<part, vars, hostVars, logVars>>

MCSpec == MCInit /\ [][MCNext]_<<part, vars, hostVars, logVars, walletVars>>
=============================================================================
