----------------------------- MODULE MCPtpSlave -----------------------------
(* PtpSlave for TLC. *)
EXTENDS PtpSlave

Behind == -3
=============================================================================
