-------------------------- MODULE MCServiceBrowser --------------------------
(* ServiceBrowser for TLC. Callers are interchangeable where liveness is not checked. *)
EXTENDS ServiceBrowser, TLC

CallerSymmetry == Permutations(Callers)
=============================================================================
