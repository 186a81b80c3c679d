--------------------------- MODULE MCFiberSemaphore ---------------------------
(* Instances of FiberSemaphore for TLC.                                    *)
EXTENDS FiberSemaphore, TLC

CONSTANTS c1, c2, c3, c4

(* As WorkerGroup and AsyncSocketStream on one semaphore.                  *)
Mixed == [c \in Tasks |-> CASE c = c3 -> "consumer"
                             [] c = c4 -> "producer"
                             [] OTHER  -> "user"]

(* As WorkerGroup: users and one that only tries.                          *)
OneTrier == [c \in Tasks |-> IF c = c1 THEN "trier" ELSE "user"]

(* As AsyncSocketStream: one side waits, the other notifies.               *)
Stream == [c \in Tasks |-> IF c \in {c1, c2} THEN "consumer" ELSE "producer"]
=============================================================================
