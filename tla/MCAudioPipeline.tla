-------------------------- MODULE MCAudioPipeline --------------------------
(* AudioPipeline on a small instance. *)
EXTENDS AudioPipeline
=============================================================================
