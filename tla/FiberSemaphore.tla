---------------------------- MODULE FiberSemaphore ----------------------------
(***************************************************************************)
(* FiberSemaphore (mutex.h, mutex.cpp) used by tasks on a Scheduler.       *)
(*                                                                         *)
(* wait() takes a permit or puts the calling fiber at the end of m_list    *)
(* and, with the spin lock already released, yields; notify() hands the    *)
(* permit to the fiber at the front by scheduling it, or increments m_num. *)
(* The spin lock makes each of the two one step; the yield of wait() is    *)
(* outside the lock, so a notify may come before, in the middle of or after*)
(* it.                                                                     *)
(*                                                                         *)
(* What the tasks do follows the users of the class: WorkerGroup (user:    *)
(* wait, work, notify) and AsyncSocketStream (consumer: runWrite only      *)
(* waits; producer: enqueue only notifies); trier is a user that calls     *)
(* tryWait.  Work may suspend the fiber once, as a hooked read would.      *)
(***************************************************************************)
EXTENDS Scheduler

CONSTANTS
  Role,       (* what each task does                                       *)
  Permits     (* the num the semaphore is constructed with                 *)

ASSUME FiberSemaphoreAssumption ==
  /\ Role \in [Tasks -> {"user", "trier", "producer", "consumer"}]
  /\ Permits \in Nat

VARIABLES
  m_num,      (* FiberSemaphore::m_num                                     *)
  m_list,     (* FiberSemaphore::m_list, the fibers in it                  *)
  sleeping,   (* fibers suspended in their work, to be woken from outside  *)
  submitted,  (* history: tasks given to schedule()                        *)
  ended,      (* history: tasks whose callback returned                    *)
  produced,   (* history: notify calls of producers                        *)
  consumed    (* history: permits consumers have used up                   *)

semVars == <<m_num, m_list>>
historyVars == <<submitted, ended, produced, consumed>>
vars == <<schedVars, semVars, sleeping, historyVars>>

(***************************************************************************)
(* begin     entered                                                       *)
(* yield     put itself in m_list, about to yield                          *)
(* work      past wait(): holds a permit                                   *)
(* sleep     registered to be woken, about to yield                        *)
(* release   work done, about to notify                                    *)
(* leave     about to return                                               *)
(***************************************************************************)
Statements == {"begin", "yield", "work", "sleep", "release", "leave"}

TypeOK ==
  /\ SchedulerTypeOK(Statements)
  /\ m_num \in Nat
  /\ m_list \in Seq(Fibers)
  /\ sleeping \subseteq Fibers
  /\ submitted \subseteq Tasks
  /\ ended \subseteq Tasks
  /\ produced \in Nat
  /\ consumed \in Nat

Init ==
  /\ SchedulerInit
  /\ m_num = Permits
  /\ m_list = <<>>
  /\ sleeping = {}
  /\ submitted = {}
  /\ ended = {}
  /\ produced = 0
  /\ consumed = 0

-----------------------------------------------------------------------------
Submit(c) ==
  /\ c \notin submitted
  /\ ScheduleCallback(c, AnyThread)
  /\ submitted' = submitted \cup {c}
  /\ UNCHANGED <<semVars, sleeping, ended, produced, consumed>>

ThreadLoop(t) ==
  /\ Loop(t) \/ Enter(t)
  /\ UNCHANGED <<semVars, sleeping, historyVars>>

Executing(t, s, roles) ==
  /\ pc[t] = "fiber"
  /\ at[t] = s
  /\ Role[m_cb[cur[t]]] \in roles

(* wait() up to the end of its locked block.                               *)
Wait(t) ==
  /\ Executing(t, "begin", {"user", "consumer"})
  /\ IF m_num > 0
     THEN /\ m_num' = m_num - 1
          /\ Step(t, "work")
          /\ UNCHANGED m_list
     ELSE /\ m_list' = Append(m_list, cur[t])
          /\ Step(t, "yield")
          /\ UNCHANGED m_num
  /\ UNCHANGED <<m_fibers, sleeping, historyVars>>

(* The yieldToHold that ends wait().                                       *)
WaitYield(t) ==
  /\ Executing(t, "yield", {"user", "consumer"})
  /\ YieldTo(t, "HOLD", "work")
  /\ UNCHANGED <<semVars, sleeping, historyVars>>

tryWait(t) ==
  /\ Executing(t, "begin", {"trier"})
  /\ m_num' = IF m_num > 0 THEN m_num - 1 ELSE m_num
  /\ Step(t, IF m_num > 0 THEN "work" ELSE "leave")
  /\ UNCHANGED <<m_fibers, m_list, sleeping, historyVars>>

Increment == m_num' = m_num + 1 /\ UNCHANGED <<m_list, m_fibers>>

HandTo(f) == Schedule(FiberEntry(f, AnyThread))

(* Mutants of Grant: the fiber is taken off and not scheduled; the last    *)
(* one is taken.                                                           *)
GrantForgetsFiber ==
  IF m_list # <<>>
  THEN m_list' = Tail(m_list) /\ UNCHANGED <<m_num, m_fibers>>
  ELSE Increment

GrantToLast ==
  IF m_list # <<>>
  THEN m_list' = Front(m_list) /\ HandTo(Last(m_list)) /\ UNCHANGED m_num
  ELSE Increment

(* The permit goes to the fiber that has waited longest, or to m_num.      *)
Grant ==
  IF m_list # <<>>
  THEN m_list' = Tail(m_list) /\ HandTo(Head(m_list)) /\ UNCHANGED m_num
  ELSE Increment

(* notify(); the spin lock is held over the call of schedule().            *)
Notify(t) ==
  /\ \/ Executing(t, "release", {"user", "trier"})
     \/ Executing(t, "begin", {"producer"})
  /\ Grant
  /\ Step(t, "leave")
  /\ produced' = IF at[t] = "begin" THEN produced + 1 ELSE produced
  /\ UNCHANGED <<sleeping, submitted, ended, consumed>>

-----------------------------------------------------------------------------
(* The work: done at once, or after the fiber was suspended and woken.     *)

WorkDone(t) ==
  /\ Executing(t, "work", {"user", "trier"})
  /\ Step(t, "release")
  /\ UNCHANGED <<m_fibers, semVars, sleeping, historyVars>>

(* A consumer never gives its permit back.                                 *)
Consume(t) ==
  /\ Executing(t, "work", {"consumer"})
  /\ Step(t, "leave")
  /\ consumed' = consumed + 1
  /\ UNCHANGED <<m_fibers, semVars, sleeping, submitted, ended, produced>>

WorkSuspends(t) ==
  /\ Executing(t, "work", {"user", "trier"})
  /\ sleeping' = sleeping \cup {cur[t]}
  /\ Step(t, "sleep")
  /\ UNCHANGED <<m_fibers, semVars, historyVars>>

SleepYield(t) ==
  /\ Executing(t, "sleep", {"user", "trier"})
  /\ YieldTo(t, "HOLD", "release")
  /\ UNCHANGED <<semVars, sleeping, historyVars>>

WakeSleeper(f) ==
  /\ f \in sleeping
  /\ sleeping' = sleeping \ {f}
  /\ Schedule(FiberEntry(f, AnyThread))
  /\ UNCHANGED <<m_stop, pc, ft, need_tick, cb_fiber, cur, at, state, ctx,
                 m_cb, clash, semVars, historyVars>>

Finish(t) ==
  /\ pc[t] = "fiber"
  /\ at[t] = "leave"
  /\ EndTask(t, "TERM")
  /\ ended' = ended \cup {m_cb[cur[t]]}
  /\ UNCHANGED <<semVars, sleeping, submitted, produced, consumed>>

TaskStep(t) ==
  \/ Wait(t)
  \/ WaitYield(t)
  \/ tryWait(t)
  \/ Notify(t)
  \/ WorkDone(t)
  \/ Consume(t)
  \/ WorkSuspends(t)
  \/ SleepYield(t)
  \/ Finish(t)

Next ==
  \/ \E c \in Tasks : Submit(c)
  \/ \E f \in Fibers : WakeSleeper(f)
  \/ \E t \in Threads : ThreadLoop(t) \/ TaskStep(t)

Spec == Init /\ [][Next]_vars

(* The operating system runs every worker thread, and what a fiber waits   *)
(* for in its work comes.                                                  *)
Fairness ==
  /\ \A t \in Threads : WF_vars(ThreadLoop(t) \/ TaskStep(t))
  /\ \A f \in Fibers : WF_vars(WakeSleeper(f))

FairSpec == Spec /\ Fairness

-----------------------------------------------------------------------------
Listed(f) == \E i \in DOMAIN m_list : m_list[i] = f
Queued(f) == \E i \in DOMAIN m_fibers : m_fibers[i].fiber = f
Taken(f)  == \E t \in Threads : pc[t] = "take" /\ ft[t].fiber = f

(* The statement fiber f is at: where a thread executes it, or where its   *)
(* saved context resumes.                                                  *)
StatementOf(f) ==
  IF \E t \in Threads : cur[t] = f
  THEN at[CHOOSE t \in Threads : cur[t] = f] ELSE ctx[f]

(* A fiber holds a permit from the decrement, or from the notify that takes*)
(* it off m_list, to the end of its own notify.                            *)
Holds(f) ==
  /\ state[f] \in {"EXEC", "HOLD"}
  /\ \/ StatementOf(f) \in {"sleep", "release"}
     \/ StatementOf(f) \in {"yield", "work"} /\ ~Listed(f)

Holders == {f \in Fibers : Holds(f)}

(* Permits are neither lost nor invented: what the constructor put in and  *)
(* what producers added is free, held, or used up by consumers.            *)
PermitsConserved ==
  ~clash => m_num + Cardinality(Holders) + consumed = Permits + produced

(* A permit is free only if no fiber waits for one.                        *)
NoIdlePermit == m_num > 0 => m_list = <<>>

(* A fiber is in m_list at most once, and while it is, nothing will resume *)
(* it but the notify that takes it off.                                    *)
ListedAreParked ==
  ~clash =>
    /\ \A i, j \in DOMAIN m_list : m_list[i] = m_list[j] => i = j
    /\ \A f \in Fibers : Listed(f) =>
         /\ ~Queued(f) /\ ~Taken(f) /\ f \notin sleeping
         /\ StatementOf(f) \in {"yield", "work"}

(* The other way round: a fiber suspended in wait() or in its work is in   *)
(* m_list, or to be woken from outside, or on its way to a thread.         *)
NoFiberForgotten ==
  ~clash =>
    \A f \in Fibers : state[f] = "HOLD" =>
      Listed(f) \/ f \in sleeping \/ Queued(f) \/ Taken(f)

(* A fiber that notify, or the source it sleeps on, has scheduled goes on  *)
(* after its yield.  It does not enter its callback again.                 *)
ResumesAfterYield ==
  [][\A t \in Threads :
       (pc[t] = "take" /\ ft[t].fiber # NoFiber /\ pc'[t] = "fiber")
         => at'[t] # "begin"]_vars

(* Every task that calls wait() gets past it, whatever the others do, when *)
(* users give their permits back and the producers have come.              *)
Producers == {c \in Tasks : Role[c] = "producer"}

WaitersGetPermits ==
  \A c \in Tasks :
    c \in submitted ~> (c \in ended \/ ~(Producers \subseteq submitted))

(* The abstract semaphore: m_list is its queue.                            *)
Semaphore == INSTANCE CountingSemaphore
  WITH free    <- m_num,
       queue   <- [i \in DOMAIN m_list |-> m_cb[m_list[i]]],
       holders <- {m_cb[f] : f \in Holders}

(* With one thread every behaviour is one of the abstract semaphore ...    *)
ImplementsSemaphore == Semaphore!Spec

(* ... and with any number of threads every step is, as long as no thread  *)
(* has switched to a fiber another thread still executes on.               *)
StepsOfSemaphore ==
  [][~clash' => (Semaphore!Next \/ UNCHANGED Semaphore!vars)]_vars
=============================================================================
