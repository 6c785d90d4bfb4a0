---------------------------- MODULE MCRtpSender ----------------------------
(* RtpSender on a small instance. *)
EXTENDS RtpSender
=============================================================================
