------------------------------ MODULE MCTimer ------------------------------
EXTENDS Timer, TLC

Symmetry == Permutations(Timer) \cup Permutations(Poller)
============================================================================
