------------------------ MODULE MCLatestFrozenVotes ------------------------
EXTENDS LatestFrozenVotes

\* Slot 2 has two versions.
MCBlocks == {<<1, 0>>, <<2, 0>>, <<2, 1>>, <<3, 0>>}
=============================================================================
