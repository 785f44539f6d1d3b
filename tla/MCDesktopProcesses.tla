-------------------------- MODULE MCDesktopProcesses --------------------------
(* Two viewer processes: viewer_open can end one and start another.        *)
EXTENDS DesktopProcesses
CONSTANTS v1, v2
MCViewers == {v1, v2}
=============================================================================
