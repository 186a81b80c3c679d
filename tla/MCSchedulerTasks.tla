--------------------------- MODULE MCSchedulerTasks ---------------------------
(* Instances of SchedulerTasks for TLC.                                    *)
EXTENDS SchedulerInvariant, TLC

CONSTANTS t1, t2, c1, c2, c3

(* All tasks for any thread, each of which registers and yields, but one   *)
(* that yields to READY.                                                   *)
Unpinned == [c \in Tasks |-> AnyThread]
AllPark  == [c \in Tasks |-> "park"]
OneReady == [c \in Tasks |-> IF c = c3 THEN "ready" ELSE "park"]

ThreadsAlike == Permutations(Threads)
=============================================================================
