------------------------- MODULE MCSessionLifecycle -------------------------
EXTENDS SessionLifecycle, TLC

Perms == Permutations(Threads) \cup Permutations(Sids)
=============================================================================
