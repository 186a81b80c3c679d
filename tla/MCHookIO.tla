------------------------------- MODULE MCHookIO -------------------------------
(* Instances of HookIO for TLC.                                            *)
EXTENDS HookIO, TLC

CONSTANTS r, q, x, cn, b, e1, e2, z, g, w1, w2

Use(fd, dir, kind, timed, times) ==
    [fd |-> fd, dir |-> dir, kind |-> kind, timed |-> timed, calls |-> times]

(* r reads with a timeout, q twice; x writes without one and b is a        *)
(* callback on x's socket; cn connects, with a timeout, a descriptor beyond *)
(* the initial size of the vector; e1 and e2 are callbacks on descriptors  *)
(* equal to its size at first and after e1's resize.  z sleeps, and g      *)
(* calls fcntl and ioctl on the socket q reads.                            *)
Plans == [t \in Waiters |->
             CASE t = r -> Use(5, "READ", "io", TRUE, 1)
               [] t = q -> Use(5, "READ", "io", TRUE, 2)
               [] t = x -> Use(5, "WRITE", "io", FALSE, 1)
               [] t = cn -> Use(100, "WRITE", "connect", TRUE, 2)
               [] t = b -> Use(5, "WRITE", "callback", FALSE, 1)
               [] t = e1 -> Use(96, "READ", "callback", FALSE, 1)
               [] t = e2 -> Use(144, "READ", "callback", FALSE, 1)
               [] t = z -> Use(5, "READ", "sleep", TRUE, 2)
               [] t = g -> Use(5, "READ", "flags", FALSE, 2)]

Ensembles == {{r, x}, {x, b}, {q, g}, {cn}, {e1, e2}, {z}}
ReadersOrSleeper == {{r, x}, {z}}
OneWorker == {{w1}}
AnyCrew == SUBSET Workers \ {{}}
Symmetry == Permutations(Workers)
===============================================================================
