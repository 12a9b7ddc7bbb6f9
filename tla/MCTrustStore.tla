----------------------------- MODULE MCTrustStore -----------------------------
(***************************************************************************)
(* Two processes and one trust.json for TLC.                               *)
(***************************************************************************)
EXTENDS TrustStore, TLC

Symmetry == Permutations(Procs) \cup Permutations(Keys) \cup Permutations(Agents)
=============================================================================
