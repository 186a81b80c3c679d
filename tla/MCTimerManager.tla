---------------------------- MODULE MCTimerManager ----------------------------
(* Instances of TimerManager for TLC.                                      *)
EXTENDS TimerInvariant, TLC

CONSTANTS x1, x2

(* The cyclic timer has the shorter period.                                *)
OneAndTwo == [x \in Timers |-> IF x = x1 THEN 1 ELSE 2]
OneAndLong == [x \in Timers |-> IF x = x1 THEN 1 ELSE 4]
OneEach == [x \in Timers |-> 1]

ThreadsAlike == Permutations(Threads)
=============================================================================
