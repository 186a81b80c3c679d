--------------------------- MODULE CountingSemaphore ---------------------------
(***************************************************************************)
(* What FiberSemaphore promises: a number of permits, each free or held by *)
(* one task, given to those who wait for one in the order they came.       *)
(***************************************************************************)
EXTENDS Naturals, Sequences

CONSTANTS
  Tasks,
  Permits     (* free permits at the start                                 *)

VARIABLES
  free,       (* permits nobody holds                                      *)
  queue,      (* the tasks that wait for a permit                          *)
  holders     (* the tasks that hold one                                   *)

vars == <<free, queue, holders>>

Init ==
  /\ free = Permits
  /\ queue = <<>>
  /\ holders = {}

Waits(c) == \E i \in DOMAIN queue : queue[i] = c

Acquire(c) ==
  /\ c \notin holders /\ ~Waits(c)
  /\ free > 0
  /\ free' = free - 1
  /\ holders' = holders \cup {c}
  /\ UNCHANGED queue

Enqueue(c) ==
  /\ c \notin holders /\ ~Waits(c)
  /\ free = 0
  /\ queue' = Append(queue, c)
  /\ UNCHANGED <<free, holders>>

(* One more permit, which goes to the first in the queue.                  *)
Grant(held) ==
  IF queue = <<>>
  THEN /\ free' = free + 1
       /\ holders' = held
       /\ UNCHANGED queue
  ELSE /\ queue' = Tail(queue)
       /\ holders' = held \cup {Head(queue)}
       /\ UNCHANGED free

Release(c) == c \in holders /\ Grant(holders \ {c})
Produce    == Grant(holders)

(* The permit is used up.                                                  *)
Consume(c) ==
  /\ c \in holders
  /\ holders' = holders \ {c}
  /\ UNCHANGED <<free, queue>>

Next ==
  \/ \E c \in Tasks : Acquire(c) \/ Enqueue(c) \/ Release(c) \/ Consume(c)
  \/ Produce

Spec == Init /\ [][Next]_vars
=============================================================================
