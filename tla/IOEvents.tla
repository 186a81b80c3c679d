------------------------------- MODULE IOEvents -------------------------------
(***************************************************************************)
(* IOManager::FdContext and its operations (iomanager.cpp) over Linux's    *)
(* epoll, as operators on the variables below; HookIO says who calls them. *)
(*                                                                         *)
(* One FdContext per descriptor remembers which directions are waited for  *)
(* (`events`) and who waits (`waiter`: a fiber or a callback).  The epoll  *)
(* item of the descriptor is kept in step with `events` by hand: ADD when  *)
(* the first direction comes, MOD, DEL when the last one goes, under the   *)
(* mutex of the context.  Items are edge triggered: the kernel lists a     *)
(* descriptor when ADD or MOD finds it ready and when it becomes ready;    *)
(* epoll_wait takes it off the list, and the thread that fetched it acts   *)
(* on what it was told, which may be old by then.                          *)
(*                                                                         *)
(* The contexts hang in a vector that grows on demand.  Reading the vector *)
(* past its end, like a failed assertion, ends the behaviour (`fault`).    *)
(***************************************************************************)
EXTENDS Integers, FiniteSets

CONSTANTS Fds,       \* descriptors the program may use
          Waiters,   \* fibers and callbacks that wait for events
          Workers,   \* threads of the IOManager
          Nobody,    \* the empty waiter
          InitSize   \* size of the vector after the constructor

ASSUME IOAssumption ==
    /\ Fds \subseteq Nat
    /\ InitSize \in Nat \ {0}
    /\ Nobody \notin Waiters
    /\ IsFiniteSet(Workers)

Dirs == {"READ", "WRITE"}
Conditions == Dirs \cup {"HUP"}

VARIABLES
    size,      \* mFdCtxs.size()
    events,    \* FdContext::events
    waiter,    \* FdContext::read and write
    queued,    \* entries of m_fibers for each waiter
    fetched,   \* what each worker has from epoll_wait and not yet handled
    item,      \* epoll: the registered mask, {} without an item
    listed,    \* epoll: descriptors on the ready list
    level,     \* the conditions that hold of each descriptor
    opened,    \* descriptors in use
    fault      \* "assert", "bounds" or "shrunk" once the behaviour has come to its end

ioVars == <<size, events, waiter, queued, fetched, item, listed, level, opened,
            fault>>

IOTypeOK ==
    /\ size \in Nat
    /\ events \in [Fds -> SUBSET Dirs]
    /\ waiter \in [Fds -> [Dirs -> Waiters \cup {Nobody}]]
    /\ queued \in [Waiters -> Nat]
    /\ fetched \in [Workers -> SUBSET [fd : Fds, on : SUBSET Conditions]]
    /\ item \in [Fds -> SUBSET Dirs]
    /\ listed \subseteq Fds
    /\ level \in [Fds -> SUBSET Conditions]
    /\ opened \subseteq Fds
    /\ fault \in {"none", "assert", "bounds", "shrunk"}

IOInit ==
    /\ size = InitSize
    /\ events = [fd \in Fds |-> {}]
    /\ waiter = [fd \in Fds |-> [d \in Dirs |-> Nobody]]
    /\ queued = [t \in Waiters |-> 0]
    /\ fetched = [w \in Workers |-> {}]
    /\ item = [fd \in Fds |-> {}]
    /\ listed = {}
    /\ level = [fd \in Fds |-> {}]
    /\ opened = Fds
    /\ fault = "none"

(***************************************************************************)
(* The kernel.                                                             *)
(***************************************************************************)
\* What epoll_wait says of a descriptor registered with mask: HUP unasked.
Reported(fd, mask) == IF mask = {} THEN {} ELSE level[fd] \cap (mask \cup {"HUP"})

\* epoll_ctl with ADD fails if there is an item, with MOD or DEL if there is none.
CtlFails(fd, before) ==
    \/ fd \notin opened
    \/ (before = {}) # (item[fd] = {})

\* A successful ADD, MOD (mask # {}) or DEL.
Watch(fd, mask) ==
    /\ item' = [item EXCEPT ![fd] = mask]
    /\ listed' = IF Reported(fd, mask) = {} THEN listed \ {fd} ELSE listed \cup {fd}

\* Data, room in the send buffer or a hang-up: an edge for whoever watches it.
BecomesReady(fd, c) ==
    /\ fd \in opened
    /\ level' = [level EXCEPT ![fd] = @ \cup {c}]
    /\ listed' = IF item[fd] # {} /\ c \in item[fd] \cup {"HUP"}
                 THEN listed \cup {fd} ELSE listed
    /\ UNCHANGED <<size, events, waiter, queued, fetched, item, opened, fault>>

\* close() removes the item with the last reference to the file.
KernelClose(fd) ==
    /\ opened' = opened \ {fd}
    /\ item' = [item EXCEPT ![fd] = {}]
    /\ listed' = listed \ {fd}
    /\ level' = [level EXCEPT ![fd] = {}]
    /\ UNCHANGED <<size, events, waiter, queued, fetched, fault>>

KernelOpen(fd) ==
    /\ fd \notin opened
    /\ opened' = opened \cup {fd}
    /\ UNCHANGED <<size, events, waiter, queued, fetched, item, listed, level, fault>>

(***************************************************************************)
(* FdContext::triggerEvent for each direction of ds.                       *)
(***************************************************************************)
Triggered(fd, ds) ==
    [t \in Waiters |-> queued[t] + Cardinality({d \in ds : waiter[fd][d] = t})]

TriggerAsserts(fd, ds) == \E d \in ds : waiter[fd][d] = Nobody

Forgotten(fd, ds) ==
    [waiter EXCEPT ![fd] = [d \in Dirs |-> IF d \in ds THEN Nobody ELSE @[d]]]

End(how) ==
    /\ fault' = how
    /\ UNCHANGED <<size, events, waiter, queued, fetched, item, listed, level, opened>>

(***************************************************************************)
(* addEvent.  The first part of resizeFdContext looks at the size under    *)
(* the read lock, the second resizes under the write lock without looking  *)
(* again, and the context is looked up under the read lock once more.  A   *)
(* resize that makes the vector smaller loses contexts another thread has  *)
(* made room for; what becomes of them is not followed.                    *)
(***************************************************************************)
TooSmall(fd) == size <= fd

NewSize(fd) == (fd * 3) \div 2

Resize(fd) ==
    IF NewSize(fd) < size THEN End("shrunk")
    ELSE /\ size' = NewSize(fd)
         /\ UNCHANGED <<events, waiter, queued, fetched, item, listed, level, opened, fault>>

\* mutant: the mask has the new direction only
AddEventOnlyNew(t, fd, d) ==
    IF CtlFails(fd, events[fd]) THEN End("assert")
    ELSE /\ waiter' = [waiter EXCEPT ![fd][d] = t]
         /\ events' = [events EXCEPT ![fd] = @ \cup {d}]
         /\ Watch(fd, {d})
         /\ UNCHANGED <<size, queued, fetched, level, opened, fault>>

\* mutant: always EPOLL_CTL_ADD
AddEventAlwaysAdd(t, fd, d) ==
    IF CtlFails(fd, {}) THEN End("assert")
    ELSE /\ waiter' = [waiter EXCEPT ![fd][d] = t]
         /\ events' = [events EXCEPT ![fd] = @ \cup {d}]
         /\ Watch(fd, events[fd] \cup {d})
         /\ UNCHANGED <<size, queued, fetched, level, opened, fault>>

AddEvent(t, fd, d) ==
    IF fd >= size THEN End("bounds")
    ELSE IF CtlFails(fd, events[fd]) THEN End("assert")
    ELSE /\ waiter' = [waiter EXCEPT ![fd][d] = t]
         /\ events' = [events EXCEPT ![fd] = @ \cup {d}]
         /\ Watch(fd, events[fd] \cup {d})
         /\ UNCHANGED <<size, queued, fetched, level, opened, fault>>

(***************************************************************************)
(* delEvent, cancelEvent and cancelAllEvent compare size() < fd, so that   *)
(* fd = size() is looked up past the end.  `dropped` are the directions of *)
(* the call that are registered, `woken` whether their waiters are.        *)
(***************************************************************************)
Remove(fd, ds, woken) ==
    LET dropped == events[fd] \cap ds
    IN  IF size < fd THEN UNCHANGED ioVars
        ELSE IF size = fd THEN End("bounds")
        ELSE IF dropped = {} THEN UNCHANGED ioVars
        ELSE IF CtlFails(fd, events[fd]) \/ (woken /\ TriggerAsserts(fd, dropped))
             THEN End("assert")
        ELSE /\ events' = [events EXCEPT ![fd] = @ \ ds]
             /\ Watch(fd, events[fd] \ ds)
             /\ queued' = IF woken THEN Triggered(fd, dropped) ELSE queued
             /\ waiter' = Forgotten(fd, dropped)
             /\ UNCHANGED <<size, fetched, level, opened, fault>>

DelEvent(fd, d) == Remove(fd, {d}, FALSE)
CancelEvent(fd, d) == Remove(fd, {d}, TRUE)
CancelAllEvent(fd) == Remove(fd, Dirs, TRUE)

(***************************************************************************)
(* idleFun: epoll_wait, then one event after the other.  Only what the     *)
(* context still waits for is triggered; a failing epoll_ctl is logged and *)
(* nothing else; read and write keep the waiter they had.                  *)
(***************************************************************************)
ToFetch == {fd \in listed : Reported(fd, item[fd]) # {}}

Fetch(w) ==
    /\ ToFetch # {}
    /\ fetched' = [fetched EXCEPT ![w] =
                     {[fd |-> fd, on |-> Reported(fd, item[fd])] : fd \in ToFetch}]
    /\ listed' = {}
    /\ UNCHANGED <<size, events, waiter, queued, item, level, opened, fault>>

\* mutant: what epoll_wait said, whoever still waits
RealEventUnmasked(e) == IF "HUP" \in e.on THEN Dirs ELSE e.on

RealEvent(e) == events[e.fd] \cap (IF "HUP" \in e.on THEN Dirs ELSE e.on)

\* mutant: the item is deleted whatever is left
LeftEventNone(e) == {}

LeftEvent(e) == events[e.fd] \ RealEvent(e)

Handle(w, e) ==
    IF TriggerAsserts(e.fd, RealEvent(e)) THEN End("assert")
    ELSE /\ IF item[e.fd] = {} THEN UNCHANGED <<item, listed>> ELSE Watch(e.fd, LeftEvent(e))
         /\ events' = [events EXCEPT ![e.fd] = @ \ RealEvent(e)]
         /\ queued' = Triggered(e.fd, RealEvent(e))
         /\ fetched' = [fetched EXCEPT ![w] = @ \ {e}]
         /\ UNCHANGED <<size, waiter, level, opened, fault>>
===============================================================================
