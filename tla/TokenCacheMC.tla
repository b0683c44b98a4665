---------------------------- MODULE TokenCacheMC ----------------------------
(* Instances of TokenCache for TLC: interchangeable processes.             *)
EXTENDS TokenCache, TLC

Symmetry == Permutations(Procs)

=============================================================================
