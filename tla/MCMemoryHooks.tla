--------------------------- MODULE MCMemoryHooks ---------------------------
EXTENDS MemoryHooks, TLC

MCStarts  == {1, 2}
MCLengths == {-1, 1, 2}
MCJunk    == {-1, 1}
Symmetry  == Permutations(Callbacks)
=============================================================================
