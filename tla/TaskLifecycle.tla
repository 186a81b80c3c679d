----------------------------- MODULE TaskLifecycle -----------------------------
(***************************************************************************)
(* What a Scheduler promises of the tasks it is given, with no threads, no *)
(* list and no fibers: a task is entered once, runs on one of Width threads*)
(* at a time, may be suspended and made runnable again any number of times,*)
(* and ends once.                                                          *)
(***************************************************************************)
EXTENDS Naturals, FiniteSets

CONSTANTS
  Tasks,
  Width       (* how many tasks may run at the same time                   *)

VARIABLE status

Status == {"new", "queued", "running", "suspended", "runnable", "ended"}

Init == status = [c \in Tasks |-> "new"]

Running == {c \in Tasks : status[c] = "running"}

Become(c, from, to) ==
  /\ status[c] \in from
  /\ status' = [status EXCEPT ![c] = to]

Submit(c) == Become(c, {"new"}, "queued")

(* A queued task is entered, a runnable one goes on where it was.          *)
Dispatch(c) ==
  /\ Cardinality(Running) < Width
  /\ Become(c, {"queued", "runnable"}, "running")

(* The wake-up may come before the task has yielded.                       *)
Suspend(c) == Become(c, {"running"}, "suspended")
Yield(c)   == Become(c, {"running"}, "runnable")

Wake(c) == Become(c, {"suspended"}, "runnable")

End(c) == Become(c, {"running"}, "ended")

Next ==
  \E c \in Tasks :
    \/ Submit(c)
    \/ Dispatch(c)
    \/ Suspend(c)
    \/ Yield(c)
    \/ Wake(c)
    \/ End(c)

Spec == Init /\ [][Next]_status
=============================================================================
