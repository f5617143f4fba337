---------------------------- MODULE MCGbSession ----------------------------
EXTENDS GbSession, TLC

ThreadSymmetry == Permutations(Thread)
=============================================================================
