----------------------------- MODULE MCSandboxRun -----------------------------
(* TLC instances of SandboxRun. *)
EXTENDS SandboxRun

CONSTANTS c1, c2

OneConn == {c1}
TwoConns == {c1, c2}
=============================================================================
