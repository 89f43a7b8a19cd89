----------------------------- MODULE MCIndexer -----------------------------
EXTENDS Indexer

CONSTANTS c1, c2, f1, f2

MCChannel == {c1, c2}
MCFeed == {f1, f2}
MCOneChannel == {c1}
Symmetry == Permutations(MCChannel) \cup Permutations(MCFeed)
=============================================================================
