---------------------------- MODULE MCLiveDecoder ----------------------------
(* LiveDecoder for TLC. *)
EXTENDS LiveDecoder
=============================================================================
