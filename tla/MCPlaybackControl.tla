------------------------- MODULE MCPlaybackControl -------------------------
(* PlaybackControl for TLC: a client alone or with a group of two. *)
EXTENDS PlaybackControl
=============================================================================
