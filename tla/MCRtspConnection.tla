-------------------------- MODULE MCRtspConnection --------------------------
(***************************************************************************)
(* RtspConnection for TLC. Four requests let two calls be given up at      *)
(* different points and two more inherit what they left; responses of up   *)
(* to two blocks let a call be dropped between blocks as well as inside    *)
(* one.                                                                    *)
(***************************************************************************)
EXTENDS RtspConnection
=============================================================================
