----------------------------- MODULE WorkerGroup ------------------------------
(***************************************************************************)
(* WorkerGroup (worker.cpp): at most m_batchSize callbacks of the group    *)
(* run at a time.  shcedule takes a permit of m_sem, doWork gives it back  *)
(* after the callback, waitAll collects all of them.  m_sem is the         *)
(* counting semaphore that FiberSemaphore implements.                      *)
(***************************************************************************)
EXTENDS Naturals, FiniteSets

CONSTANTS BatchSize,   \* m_batchSize
          Jobs,        \* callbacks
          Throwing,    \* those that may throw
          Waiting      \* fibers that call waitAll; the destructor is one

ASSUME GroupAssumption == BatchSize \in Nat

VARIABLES
    room,        \* permits of m_sem
    job,         \* "new", "waiting" in shcedule, "scheduled", "running", ...
    finish,      \* m_finish
    collected,   \* permits each caller of waitAll has taken
    drain        \* "new", "tested", "taking", "returned"

groupVars == <<room, job, finish, collected, drain>>

GroupInit ==
    /\ room = BatchSize
    /\ job = [j \in Jobs |-> "new"]
    /\ finish = FALSE
    /\ collected = [f \in Waiting |-> 0]
    /\ drain = [f \in Waiting |-> "new"]

Becomes(j, from, to) == job[j] = from /\ job' = [job EXCEPT ![j] = to]

\* shcedule(cb): m_sem.wait()
Submit(j) ==
    /\ Becomes(j, "new", "waiting")
    /\ UNCHANGED <<room, finish, collected, drain>>

\* ... and m_sch->schedule(doWork)
Admit(j) ==
    /\ room > 0
    /\ room' = room - 1
    /\ Becomes(j, "waiting", "scheduled")
    /\ UNCHANGED <<finish, collected, drain>>

DoWork(j) ==
    /\ Becomes(j, "scheduled", "running")
    /\ UNCHANGED <<room, finish, collected, drain>>

\* mutant: the notify is forgotten
GivenBackNone == room

GivenBack == room + 1

\* cb() and m_sem.notify()
Finish(j) ==
    /\ Becomes(j, "running", "done")
    /\ room' = GivenBack
    /\ UNCHANGED <<finish, collected, drain>>

\* Fiber::run catches what the callback throws: no notify.
Throw(j) ==
    /\ j \in Throwing
    /\ Becomes(j, "running", "thrown")
    /\ UNCHANGED <<room, finish, collected, drain>>

\* waitAll: the test of m_finish and the assignment are two steps.
TestFinish(f) ==
    /\ drain[f] = "new"
    /\ drain' = [drain EXCEPT ![f] = IF finish THEN "returned" ELSE "tested"]
    /\ UNCHANGED <<room, job, finish, collected>>

SetFinish(f) ==
    /\ drain[f] = "tested"
    /\ finish' = TRUE
    /\ drain' = [drain EXCEPT ![f] = "taking"]
    /\ UNCHANGED <<room, job, collected>>

Enough == BatchSize

TakeOne(f) ==
    /\ drain[f] = "taking"
    /\ IF collected[f] = Enough
       THEN /\ drain' = [drain EXCEPT ![f] = "returned"]
            /\ UNCHANGED <<room, collected>>
       ELSE /\ room > 0
            /\ room' = room - 1
            /\ collected' = [collected EXCEPT ![f] = @ + 1]
            /\ UNCHANGED drain
    /\ UNCHANGED <<job, finish>>

-------------------------------------------------------------------------------
GroupNext ==
    \/ \E j \in Jobs : Submit(j) \/ Admit(j) \/ DoWork(j) \/ Finish(j) \/ Throw(j)
    \/ \E f \in Waiting : TestFinish(f) \/ SetFinish(f) \/ TakeOne(f)

GroupSpec == GroupInit /\ [][GroupNext]_groupVars

(* The scheduler runs what is scheduled, a callback comes to its end, and  *)
(* the semaphore serves those who wait in their order.                     *)
GroupFairness ==
    /\ \A j \in Jobs :
          /\ SF_groupVars(Admit(j))
          /\ WF_groupVars(DoWork(j))
          /\ WF_groupVars(Finish(j) \/ Throw(j))
    /\ \A f \in Waiting : SF_groupVars(SetFinish(f) \/ TakeOne(f))

GroupFairSpec == GroupSpec /\ GroupFairness
-------------------------------------------------------------------------------
(***************************************************************************)
(* Properties.                                                             *)
(***************************************************************************)
Active == {j \in Jobs : job[j] \in {"scheduled", "running"}}
Thrown == {j \in Jobs : job[j] = "thrown"}

(***************************************************************************)
(* A caller of waitAll that has collected the permits returns when nothing *)
(* of the group is scheduled or runs, and nothing starts any more; a       *)
(* second caller does not wait at all.                                     *)
(***************************************************************************)
WaitAllWaits ==
    \A f \in Waiting :
        drain[f] = "returned" /\ collected[f] > 0 => Active = {}

(***************************************************************************)
(* waitAll returns, and not before that, unless a callback threw, which    *)
(* costs a permit for good, or a second caller, that found m_finish unset  *)
(* too, has taken some of the permits: they are never given back.          *)
(***************************************************************************)
WaitAllReturns ==
    /\ []WaitAllWaits
    /\ \A f \in Waiting :
        (drain[f] = "taking") ~>
            \/ drain[f] = "returned"
            \/ Thrown # {}
            \/ \E g \in Waiting \ {f} : collected[g] > 0
===============================================================================
