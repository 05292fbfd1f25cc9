---------------------------- MODULE MCScheduler ----------------------------
(* Instances of Scheduler for TLC.                                          *)
EXTENDS Scheduler, TLC

CONSTANTS main_t, w1, j1, j2, f1, f2, f3, f4

OneWorker == {w1}
TwoJobs == {j1, j2}
AnyThread == {None}
PinAny == {None, main_t, w1}
PinWorker == {None, w1}
BothWaits == {"timer", "event"}
NoWaits == {}

\* Fiber objects are interchangeable, and so are jobs.
Symmetry == Permutations(Fibers) \cup Permutations(Jobs)
=============================================================================
