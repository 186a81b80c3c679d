---------------------------- MODULE SchedulerTasks ----------------------------
(***************************************************************************)
(* A Scheduler with the tasks its users give it.  A task is submitted once,*)
(* as a callback or as a Fiber, for any thread or pinned to one.  What it  *)
(* does when it runs depends on its Kind:                                  *)
(*   plain  returns or throws, without ever yielding                       *)
(*   park   up to MaxParks times registers its fiber with a source of      *)
(*          wake-ups and then yields: FiberSemaphore::wait, do_io with     *)
(*          addEvent, and RockStream::request yield to HOLD, the hooked    *)
(*          sleep with addTimer to READY                                   *)
(*   ready  calls yieldToReady and registers with nothing, as foo of       *)
(*          test/testScheduler.cpp                                         *)
(* A source of wake-ups is anything that later schedules the fiber: it may *)
(* do so at any moment after the registration, from any thread.            *)
(***************************************************************************)
EXTENDS Scheduler

CONSTANTS
  Pin,        (* the threadId each task is scheduled with                  *)
  Kind,       (* what each task does                                       *)
  MaxParks    (* bound: registrations of one task                          *)

ASSUME SchedulerTasksAssumption ==
  /\ Pin \in [Tasks -> Threads \cup {AnyThread}]
  /\ Kind \in [Tasks -> {"plain", "park", "ready"}]
  /\ MaxParks \in Nat

VARIABLES
  waiting,    (* registrations of each fiber whose wake-up has not come    *)
  parks,      (* registrations so far, per task                            *)
  early,      (* history: tasks submitted before stop()                    *)
  late,       (* history: tasks submitted after stop()                     *)
  begun,      (* history: how often each task's callback was entered       *)
  ended       (* history: tasks whose callback returned or threw           *)

vars == <<schedVars, waiting, parks, early, late, begun, ended>>

Statements == {"begin", "yield", "resumed"}

TypeOK ==
  /\ SchedulerTypeOK(Statements)
  /\ waiting \in [Fibers -> Nat]
  /\ parks \in [Tasks -> 0..MaxParks]
  /\ early \subseteq Tasks
  /\ late \subseteq Tasks
  /\ begun \in [Tasks -> Nat]
  /\ ended \subseteq Tasks

Init ==
  /\ SchedulerInit
  /\ waiting = [f \in Fibers |-> 0]
  /\ parks = [c \in Tasks |-> 0]
  /\ early = {}
  /\ late = {}
  /\ begun = [c \in Tasks |-> 0]
  /\ ended = {}

-----------------------------------------------------------------------------
(* schedule() of a task from outside, at any time.                         *)
Submit(c) ==
  /\ c \notin early \cup late
  /\ \/ ScheduleCallback(c, Pin[c])
     \/ \E f \in Fibers : ScheduleNewFiber(f, c, Pin[c])
  /\ early' = IF m_stop THEN early ELSE early \cup {c}
  /\ late' = IF m_stop THEN late \cup {c} ELSE late
  /\ UNCHANGED <<waiting, parks, begun, ended>>

(* Mutant of Unregister: the registration stays and the source fires again. *)
KeepRegistration(f) == f \in Fibers /\ UNCHANGED waiting

Unregister(f) == waiting' = [waiting EXCEPT ![f] = @ - 1]

(* The source of wake-ups schedules the fiber; no source pins its thread.  *)
Wake(f) ==
  /\ waiting[f] > 0
  /\ Unregister(f)
  /\ Schedule(FiberEntry(f, AnyThread))
  /\ UNCHANGED <<m_stop, pc, ft, need_tick, cb_fiber, cur, at, state, ctx,
                 m_cb, clash, parks, early, late, begun, ended>>

(* mainFun; the callback of a task is entered at the statement "begin".    *)
ThreadLoop(t) ==
  \/ /\ Loop(t)
     /\ UNCHANGED <<waiting, parks, early, late, begun, ended>>
  \/ /\ Enter(t)
     /\ begun' = IF pc'[t] = "fiber" /\ at'[t] = "begin"
                 THEN [begun EXCEPT ![m_cb'[cur'[t]]] = @ + 1] ELSE begun
     /\ UNCHANGED <<waiting, parks, early, late, ended>>

-----------------------------------------------------------------------------
(* The statements of a task, executed by thread t.                         *)

Executing(t, S) == pc[t] = "fiber" /\ at[t] \in S

(* Mutant of AddRegistration: the task yields without having registered.   *)
AddNothing(f) == f \in Fibers /\ UNCHANGED waiting

AddRegistration(f) == waiting' = [waiting EXCEPT ![f] = @ + 1]

(* The task hands its fiber to a source of wake-ups ...                    *)
Register(t) ==
  /\ Executing(t, {"begin", "resumed"})
  /\ Kind[m_cb[cur[t]]] = "park"
  /\ parks[m_cb[cur[t]]] < MaxParks
  /\ AddRegistration(cur[t])
  /\ parks' = [parks EXCEPT ![m_cb[cur[t]]] = @ + 1]
  /\ Step(t, "yield")
  /\ UNCHANGED <<m_fibers, early, late, begun, ended>>

(* ... and then yields.                                                    *)
YieldRegistered(t) ==
  /\ Executing(t, {"yield"})
  /\ \E st \in {"HOLD", "READY"} : YieldTo(t, st, "resumed")
  /\ UNCHANGED <<waiting, parks, early, late, begun, ended>>

YieldUnregistered(t) ==
  /\ Executing(t, {"begin"})
  /\ Kind[m_cb[cur[t]]] = "ready"
  /\ YieldTo(t, "READY", "resumed")
  /\ UNCHANGED <<waiting, parks, early, late, begun, ended>>

Finish(t) ==
  /\ Executing(t, IF Kind[m_cb[cur[t]]] = "ready" THEN {"resumed"}
                  ELSE {"begin", "resumed"})
  /\ \E st \in {"TERM", "EXECPT"} : EndTask(t, st)
  /\ ended' = ended \cup {m_cb[cur[t]]}
  /\ UNCHANGED <<waiting, parks, early, late, begun>>

TaskStep(t) ==
  \/ Register(t)
  \/ YieldRegistered(t)
  \/ YieldUnregistered(t)
  \/ Finish(t)

StopStep ==
  /\ Stop
  /\ UNCHANGED <<waiting, parks, early, late, begun, ended>>

Next ==
  \/ \E c \in Tasks : Submit(c)
  \/ \E f \in Fibers : Wake(f)
  \/ \E t \in Threads : ThreadLoop(t) \/ TaskStep(t)
  \/ StopStep

Spec == Init /\ [][Next]_vars

(* The operating system runs every worker thread, and every wake-up that a *)
(* fiber registered for does come.  Nobody has to submit a task or to call *)
(* stop().                                                                 *)
Fairness ==
  /\ \A t \in Threads : WF_vars(ThreadLoop(t) \/ TaskStep(t))
  /\ \A f \in Fibers : WF_vars(Wake(f))

FairSpec == Spec /\ Fairness

-----------------------------------------------------------------------------
(* Where the next switch to a fiber may come from.                         *)

Entries    == Range(m_fibers)
Queued(f)  == \E e \in Entries : e.fiber = f
Taken(f)   == \E t \in Threads : pc[t] = "take" /\ ft[t].fiber = f
OnStack(f) == \E t \in Threads : cur[t] = f
Suspended(f) == state[f] \in {"HOLD", "READY"}

(* A fiber has at most one wake-up under way: registered, queued or taken  *)
(* by one thread.  A second one would be resumed by a second thread, or    *)
(* after the fiber has ended.                                              *)
OneWakeup ==
  ~clash =>
    \A f \in Fibers :
      /\ \A i, j \in DOMAIN m_fibers :
           (m_fibers[i].fiber = f /\ m_fibers[j].fiber = f) => i = j
      /\ \A t, u \in Threads :
           (/\ pc[t] = "take" /\ ft[t].fiber = f
            /\ pc[u] = "take" /\ ft[u].fiber = f) => t = u
      /\ ~(Queued(f) /\ Taken(f))
      /\ waiting[f] <= 1
      /\ waiting[f] > 0 => ~Queued(f) /\ ~Taken(f)

(* A fiber that yielded after it registered is never forgotten: until it is *)
(* resumed its wake-up is registered, queued or taken.                     *)
NoLostWakeup ==
  ~clash =>
    \A f \in Fibers :
      (Suspended(f) /\ Kind[m_cb[f]] = "park") =>
        waiting[f] > 0 \/ Queued(f) \/ Taken(f)

(* The callback of a task is entered once at most, whatever thread takes   *)
(* it, and however often its fiber is suspended, resumed or reused.        *)
EnteredOnce == ~clash => \A c \in Tasks : begun[c] <= 1

(* No thread executes a statement of a task that has ended, or takes an    *)
(* entry for its fiber: the object is entered again only for another task. *)
NothingAfterEnd ==
  ~clash => \A t \in Threads :
    /\ pc[t] = "fiber" => m_cb[cur[t]] \notin ended
    /\ (pc[t] = "take" /\ ft[t].fiber # NoFiber) =>
         m_cb[ft[t].fiber] \notin ended

(* None of the SEAICE_ASSERTs before a switch fails.                       *)
NoAssertionFails == ~clash => \A t \in Threads : AssertionsHold(t)

(* A task submitted before stop() is entered, one pinned to a thread too.  *)
EarlyTasksRun == \A c \in Tasks : c \in early ~> begun[c] > 0

(* A task that is entered ends, however often it parks - unless stop()     *)
(* joined the threads while it was suspended: nothing runs it after that.  *)
EnteredTasksEnd == \A c \in Tasks : begun[c] > 0 ~> (c \in ended \/ Joined)

(* stop() returns.                                                         *)
StopReturns == m_stop ~> Joined

-----------------------------------------------------------------------------
(* The abstract status of a task.                                          *)
Executed(c)   == \E f \in Fibers : m_cb[f] = c /\ state[f] = "EXEC"
Registered(c) == \E f \in Fibers : m_cb[f] = c /\ waiting[f] > 0

StatusOf(c) ==
  IF c \notin early \cup late THEN "new"
  ELSE IF Executed(c)         THEN "running"
  ELSE IF c \in ended         THEN "ended"
  ELSE IF begun[c] = 0        THEN "queued"
  ELSE IF Registered(c)       THEN "suspended"
  ELSE "runnable"

Lifecycle == INSTANCE TaskLifecycle
  WITH status <- [c \in Tasks |-> StatusOf(c)],
       Width  <- Cardinality(Threads)

(* The Scheduler implements the life cycle of its tasks: every behaviour  *)
(* does with one thread, or with tasks that never yield ...                *)
ImplementsLifecycle == Lifecycle!Spec

(* ... and with any number of threads every step does, as long as no       *)
(* thread has switched to a fiber another thread still executes on.        *)
StepsOfLifecycle ==
  [][~clash' => (Lifecycle!Next \/ UNCHANGED [c \in Tasks |-> StatusOf(c)])]_vars

(* No task starves: the list is first in first out, so a task that can run *)
(* does, whatever the others do - unless it came after the last thread had *)
(* left.                                                                   *)
RunnableTasksRun ==
  \A c \in Tasks :
    StatusOf(c) \in {"queued", "runnable"} ~> (StatusOf(c) = "running" \/ Joined)
=============================================================================
