--------------------------- MODULE MCCallAdmission ---------------------------
(***************************************************************************)
(* CallAdmission on small sets of requests.                                *)
(***************************************************************************)
EXTENDS CallAdmission, TLC

CONSTANTS desktop, elsewhere   \* a desktop of this server, one of another's

OrderedCalls(kinds) ==
  {c \in DOMAIN kinds : kinds[c] \in {"input", "clipboard", "remote"}}

(* One desktop, two threads: ordered calls, a viewer change, a stop.       *)
LocalKind == [a1 |-> "input", a2 |-> "clipboard", v |-> "viewer", s |-> "stop"]

(* Calls to another server's desktop, and one from there that meets an     *)
(* input call of this server's client. Two threads.                        *)
RemoteKind == [r1 |-> "remote", r2 |-> "remote", a1 |-> "input", f |-> "forwarded"]

(* Either four requests: the others have had their replies.                *)
MCKind     == LocalKind @@ RemoteKind
MCRequests == DOMAIN MCKind
MCCalls    == OrderedCalls(MCKind)
MCDesktop  == [c \in MCRequests |-> IF MCKind[c] = "remote" THEN elsewhere ELSE desktop]

MCInit ==
  /\ OrderInit
  /\ \E kinds \in {LocalKind, RemoteKind} :
       at = [c \in MCRequests |-> IF c \in DOMAIN kinds THEN "away" ELSE "replied"]
  /\ inputGate = [o \in Desktops |-> Free]
  /\ startGate = [o \in Desktops |-> Free]
  /\ permitted = {}

MCSpec == MCInit /\ [][Next]_vars /\ Fairness

(* One thread: an input call, a viewer change and a read.                  *)
NarrowKind == [a1 |-> "input", v |-> "viewer", b |-> "read"]
NarrowRequests == DOMAIN NarrowKind
NarrowCalls    == OrderedCalls(NarrowKind)
NarrowDesktop  == [c \in NarrowRequests |-> desktop]

MCDesktops == {desktop, elsewhere}
MCRemote   == {elsewhere}
=============================================================================
