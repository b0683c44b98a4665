------------------------------ MODULE ListingMC ------------------------------
EXTENDS Listing, TLC

Symmetry == Permutations(Procs) \cup Permutations(Scopes)

=============================================================================
