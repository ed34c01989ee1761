--------------------------- MODULE MCLinkLogNodes ---------------------------
EXTENDS LinkLogNodes, TLC

\* The heads are alike, the other IDs are, and so are the cells for bools.
Symmetric == Permutations(Heads) \cup Permutations(Id \ Heads) \cup Permutations(Flag)

=============================================================================
