----------------------------- MODULE MCPairSetup -----------------------------
(* PairSetup for TLC. *)
EXTENDS PairSetup, TLC

ClientSymmetry == Permutations(Clients)
=============================================================================
