---------------------------- MODULE MCScheduler ----------------------------
EXTENDS SchedulerInv, TLC

TaskSymmetry == Permutations(Task)
Symmetry == Permutations(Worker) \cup Permutations(Task)
============================================================================
