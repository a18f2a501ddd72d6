------------------------------ MODULE MCFscq ------------------------------
EXTENDS FscqTree, TLC
View == <<ds, queued, mem, job, left, trunced, leaky>>
Symmetry == Permutations(FreeName)
MCRanges == {<<0, 1>>, <<2, 1>>, <<3, 2>>}
=============================================================================
