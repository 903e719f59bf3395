---------------------------- MODULE MCIOManager ----------------------------
EXTENDS IOManager, TLC

Symmetry == Permutations(Worker) \cup Permutations(Task)
============================================================================
