-------------------------- MODULE RoleCredentialsMC --------------------------
EXTENDS RoleCredentials, TLC

Symmetry == Permutations(Procs) \cup Permutations(Sessions)

=============================================================================
