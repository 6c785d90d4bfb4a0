---------------------------- MODULE MCGroupWire ----------------------------
(* GroupWire on a small instance. *)
EXTENDS GroupWire
=============================================================================
