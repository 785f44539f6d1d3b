--------------------------- MODULE MCSessionControl ---------------------------
(* Two servers of one PID, one after the other, and one of another PID     *)
(* that its client calls their desktops through.                           *)
EXTENDS SessionControl

CONSTANTS a1, a2, b, A, B

MCServers == {a1, a2, b}
MCPids    == {A, B}
MCPid     == [p \in MCServers |-> IF p = b THEN B ELSE A]

MCCalls    == {"attach", "call"}
MCAttaches == {"attach"}
MCCaller   == [c \in MCCalls |-> b]
MCMeant    == [c \in MCCalls |-> a1]
=============================================================================
