---------------------------- MODULE FileUpdateMC ----------------------------
EXTENDS FileUpdate, TLC

Symmetry == Permutations(Procs)

=============================================================================
