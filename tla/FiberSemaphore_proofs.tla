------------------------ MODULE FiberSemaphore_proofs ------------------------
(***************************************************************************)
(* Proofs about FiberSemaphore, for any number of threads, fibers, tasks   *)
(* and permits.  The invariant says where each fiber is: in m_list, asleep *)
(* in its work, in m_fibers, in the hands of a thread that resumes it, or  *)
(* executed - and at which statement.  Everything in it but the types is   *)
(* about the time before some thread switches to a fiber another thread    *)
(* still executes on.                                                      *)
(***************************************************************************)
EXTENDS FiberSemaphore, Scheduler_proofs, FiniteSetTheorems

OnFiber == {"fiber", "swapOut", "exit"}
Holding == {"take", "fiber", "swapOut", "exit", "back"}

(* A fiber that is executed, held, in m_fibers, in m_list or asleep has a  *)
(* callback; without this the types are not inductive.                     *)
Loaded(f) == f \in Fibers /\ m_cb[f] \in Tasks

LoadedOK ==
  /\ \A t \in Threads : pc[t] \in OnFiber => Loaded(cur[t])
  /\ \A t \in Threads : ft[t].fiber \in Fibers => Loaded(ft[t].fiber)
  /\ \A f \in Fibers : Queued(f) \/ Listed(f) \/ f \in sleeping => Loaded(f)

TypeInv == TypeOK /\ LoadedOK

(* An entry is a fiber or a callback, and no two entries are for the same  *)
(* one; neither is m_list.                                                 *)
WellFormed(e) == (e.fiber = NoFiber) # (e.cb = NoTask)

Twins(d, e) ==
  \/ d.fiber = e.fiber /\ d.fiber # NoFiber
  \/ d.cb = e.cb /\ d.cb # NoTask

QueueOK ==
  /\ \A i \in DOMAIN m_fibers : WellFormed(m_fibers[i])
  /\ \A i, j \in DOMAIN m_fibers : Twins(m_fibers[i], m_fibers[j]) => i = j

ListOK == \A i, j \in DOMAIN m_list : m_list[i] = m_list[j] => i = j

HeldOK == \A t \in Threads : pc[t] \in Holding => WellFormed(ft[t])

(* A thread executes on one fiber, on which no other thread executes, and  *)
(* whose state goes with where the thread is.                              *)
StackOK(t) ==
  /\ pc[t] \in OnFiber <=> cur[t] # NoFiber
  /\ pc[t] = "fiber"   => state[cur[t]] = "EXEC"
  /\ pc[t] = "swapOut" => state[cur[t]] = "HOLD"
  /\ pc[t] = "exit"    => state[cur[t]] = "TERM"

StacksOK ==
  /\ \A t \in Threads : StackOK(t)
  /\ \A t, u \in Threads : (cur[t] = cur[u] /\ cur[t] # NoFiber) => t = u

(* A thread's cb_fiber is its own, and has ended when the thread is not in *)
(* a callback.                                                             *)
CbFiberOK(t) ==
  cb_fiber[t] # NoFiber =>
    /\ state[cb_fiber[t]] # "FREE"
    /\ (pc[t] \notin OnFiber \cup {"back"} \/ ft[t].cb = NoTask)
         => state[cb_fiber[t]] = "TERM"

CbFibersOK ==
  /\ \A t \in Threads : CbFiberOK(t)
  /\ \A t, u \in Threads :
       (cb_fiber[t] = cb_fiber[u] /\ cb_fiber[t] # NoFiber) => t = u

(* What will resume a fiber is in one place: it waits for a permit, or for *)
(* its work, or is in m_fibers, or in the hands of one thread ...          *)
OneTaker(f) ==
  \A t, u \in Threads :
    (/\ pc[t] = "take" /\ ft[t].fiber = f
     /\ pc[u] = "take" /\ ft[u].fiber = f) => t = u

OnePlace(f) ==
  /\ OneTaker(f)
  /\ Listed(f) => f \notin sleeping /\ ~Queued(f) /\ ~Taken(f)
  /\ f \in sleeping => ~Queued(f) /\ ~Taken(f)
  /\ Queued(f) => ~Taken(f)

HasWakeup(f) == Listed(f) \/ f \in sleeping \/ Queued(f) \/ Taken(f)

(* ... and is there from the statement before the yield to the resume.     *)
Entered(f) == state[f] \in {"EXEC", "HOLD"}

FiberOK(f) ==
  /\ OnePlace(f)
  /\ HasWakeup(f) => Entered(f)
  /\ Taken(f) => state[f] = "HOLD"
  /\ state[f] = "HOLD" => HasWakeup(f) /\ StatementOf(f) \in {"work", "release"}
  /\ state[f] = "EXEC" => (HasWakeup(f) <=> StatementOf(f) \in {"yield", "sleep"})
  /\ Listed(f) => StatementOf(f) \in {"yield", "work"}
  /\ f \in sleeping => StatementOf(f) \in {"sleep", "release"}
  /\ Entered(f) => m_cb[f] \in Tasks

FibersOK == \A f \in Fibers : FiberOK(f)

(* A task waits for a thread in one place, or has one fiber until it ends. *)
CbQueued(c) == \E i \in DOMAIN m_fibers : m_fibers[i].cb = c
CbTaken(c)  == \E t \in Threads : pc[t] = "take" /\ ft[t].cb = c
Runs(f, c)  == Entered(f) /\ m_cb[f] = c

TaskOK(c) ==
  /\ ~(CbQueued(c) /\ CbTaken(c))
  /\ \A t, u \in Threads :
       (pc[t] = "take" /\ ft[t].cb = c /\ pc[u] = "take" /\ ft[u].cb = c) => t = u
  /\ CbQueued(c) \/ CbTaken(c) =>
       c \in submitted /\ \A f \in Fibers : ~Runs(f, c)
  /\ \A f \in Fibers : Runs(f, c) => c \in submitted
  /\ \A f, g \in Fibers : Runs(f, c) /\ Runs(g, c) => f = g

TasksOK == \A c \in Tasks : TaskOK(c)

BeforeClash ==
  /\ QueueOK
  /\ ListOK
  /\ HeldOK
  /\ StacksOK
  /\ CbFibersOK
  /\ FibersOK
  /\ TasksOK
  /\ NoIdlePermit

SemInv == TypeInv /\ (~clash => BeforeClash)

-----------------------------------------------------------------------------
(* What schedule() and the scan do to m_fibers, and wait() and notify() to *)
(* m_list.                                                                 *)

LEMMA ScheduleQueue ==
  ASSUME m_fibers \in Seq(Entry), NEW e \in Entry, Schedule(e),
         NoFiber \notin Fibers, NoTask \notin Tasks
  PROVE  /\ m_fibers' \in Seq(Entry)
         /\ \A f : Queued(f)' <=> Queued(f) \/ f = e.fiber
         /\ \A c : CbQueued(c)' <=> CbQueued(c) \/ c = e.cb
         /\ (/\ QueueOK /\ WellFormed(e)
             /\ e.fiber \in Fibers => ~Queued(e.fiber)
             /\ e.cb \in Tasks => ~CbQueued(e.cb)) => QueueOK'
<1>1. /\ DOMAIN m_fibers = 1..Len(m_fibers)
      /\ DOMAIN m_fibers' = 1..(Len(m_fibers) + 1)
      /\ \A i \in 1..Len(m_fibers) : m_fibers'[i] = m_fibers[i]
      /\ m_fibers'[Len(m_fibers) + 1] = e
      /\ Len(m_fibers) \in Nat
      /\ m_fibers' \in Seq(Entry)
  BY AppendEntry DEF Schedule
<1>2. \A f : Queued(f)' <=> Queued(f) \/ f = e.fiber
  BY <1>1 DEF Queued
<1>3. \A c : CbQueued(c)' <=> CbQueued(c) \/ c = e.cb
  BY <1>1 DEF CbQueued
<1>4. ASSUME QueueOK, WellFormed(e), e.fiber \in Fibers => ~Queued(e.fiber),
             e.cb \in Tasks => ~CbQueued(e.cb)
      PROVE  QueueOK'
  <2>1. \A i \in DOMAIN m_fibers' : WellFormed(m_fibers'[i])
    BY <1>1, <1>4 DEF QueueOK
  <2>2. \A k \in 1..Len(m_fibers) :
          ~Twins(m_fibers[k], e) /\ ~Twins(e, m_fibers[k])
    BY <1>1, <1>4 DEF Queued, CbQueued, Twins, Entry
  <2>3. ASSUME NEW i \in DOMAIN m_fibers', NEW j \in DOMAIN m_fibers',
               Twins(m_fibers'[i], m_fibers'[j])
        PROVE  i = j
    BY <1>1, <1>4, <2>2, <2>3 DEF QueueOK
  <2> QED
    BY <2>1, <2>3 DEF QueueOK
<1> QED
  BY <1>1, <1>2, <1>3, <1>4

LEMMA EraseQueue ==
  ASSUME m_fibers \in Seq(Entry), NEW i \in DOMAIN m_fibers, Erase(i),
         NoFiber \notin Fibers, NoTask \notin Tasks
  PROVE  /\ m_fibers[i] \in Entry
         /\ \A f : Queued(f)' => Queued(f)
         /\ Queued(m_fibers[i].fiber) /\ CbQueued(m_fibers[i].cb)
         /\ \A c : CbQueued(c)' => CbQueued(c)
         /\ QueueOK =>
              /\ QueueOK'
              /\ WellFormed(m_fibers[i])
              /\ \A f \in Fibers : Queued(f)' <=> Queued(f) /\ f # m_fibers[i].fiber
              /\ \A c \in Tasks : CbQueued(c)' <=> CbQueued(c) /\ c # m_fibers[i].cb
<1> DEFINE up(j) == IF j < i THEN j ELSE j + 1
<1>1. /\ DOMAIN m_fibers = 1..Len(m_fibers)
      /\ DOMAIN m_fibers' = 1..(Len(m_fibers) - 1)
      /\ \A j \in DOMAIN m_fibers' : m_fibers'[j] = m_fibers[up(j)]
      /\ Len(m_fibers) \in Nat
  BY RemoveEntry DEF Erase
<1>2. \A j \in DOMAIN m_fibers' : up(j) \in DOMAIN m_fibers /\ up(j) # i
  BY <1>1
<1>3. \A j, k \in DOMAIN m_fibers' : up(j) = up(k) => j = k
  BY <1>1
<1>4. ASSUME NEW k \in DOMAIN m_fibers, k # i
      PROVE  \E j \in DOMAIN m_fibers' : up(j) = k
  <2> DEFINE j == IF k < i THEN k ELSE k - 1
  <2>1. j \in DOMAIN m_fibers' /\ up(j) = k
    BY <1>1, <1>4
  <2> QED
    BY <2>1
<1> HIDE DEF up
<1>5. /\ \A f : Queued(f)' => Queued(f)
      /\ \A c : CbQueued(c)' => CbQueued(c)
      /\ Queued(m_fibers[i].fiber) /\ CbQueued(m_fibers[i].cb)
  BY <1>1, <1>2 DEF Queued, CbQueued
<1>6. ASSUME QueueOK
      PROVE  /\ QueueOK'
             /\ \A f \in Fibers : Queued(f)' <=> Queued(f) /\ f # m_fibers[i].fiber
             /\ \A c \in Tasks : CbQueued(c)' <=> CbQueued(c) /\ c # m_fibers[i].cb
  <2>1. QueueOK'
    BY <1>1, <1>2, <1>3, <1>6 DEF QueueOK
  <2>2. \A j \in DOMAIN m_fibers' : ~Twins(m_fibers'[j], m_fibers[i])
    BY <1>1, <1>2, <1>6 DEF QueueOK
  <2>3. \A f \in Fibers : Queued(f) /\ f # m_fibers[i].fiber => Queued(f)'
    BY <1>1, <1>4 DEF Queued
  <2>4. \A c \in Tasks : CbQueued(c) /\ c # m_fibers[i].cb => CbQueued(c)'
    BY <1>1, <1>4 DEF CbQueued
  <2>5. \A f \in Fibers : Queued(f)' => f # m_fibers[i].fiber
    BY <2>2 DEF Queued, Twins
  <2>6. \A c \in Tasks : CbQueued(c)' => c # m_fibers[i].cb
    BY <2>2 DEF CbQueued, Twins
  <2> QED
    BY <1>5, <2>1, <2>3, <2>4, <2>5, <2>6
<1>7. QueueOK => WellFormed(m_fibers[i])
  BY DEF QueueOK
<1> QED
  BY <1>5, <1>6, <1>7

LEMMA SameQueue ==
  ASSUME UNCHANGED m_fibers
  PROVE  /\ QueueOK => QueueOK'
         /\ \A f : Queued(f)' <=> Queued(f)
         /\ \A c : CbQueued(c)' <=> CbQueued(c)
  BY DEF QueueOK, Queued, CbQueued

LEMMA SameList ==
  ASSUME UNCHANGED m_list
  PROVE  /\ ListOK => ListOK'
         /\ \A f : Listed(f)' <=> Listed(f)
  BY DEF ListOK, Listed

LEMMA AppendList ==
  ASSUME m_list \in Seq(Fibers), NEW f \in Fibers, m_list' = Append(m_list, f)
  PROVE  /\ m_list' \in Seq(Fibers)
         /\ m_list' # <<>>
         /\ \A g : Listed(g)' <=> Listed(g) \/ g = f
         /\ ListOK /\ ~Listed(f) => ListOK'
<1>1. /\ DOMAIN m_list = 1..Len(m_list)
      /\ DOMAIN m_list' = 1..(Len(m_list) + 1)
      /\ \A i \in 1..Len(m_list) : m_list'[i] = m_list[i]
      /\ m_list'[Len(m_list) + 1] = f
      /\ Len(m_list) \in Nat
      /\ m_list' \in Seq(Fibers)
  BY AppendEntry
<1>2. m_list' # <<>>
  BY <1>1
<1>3. \A g : Listed(g)' <=> Listed(g) \/ g = f
  BY <1>1 DEF Listed
<1>4. ASSUME ListOK, ~Listed(f) PROVE ListOK'
  BY <1>1, <1>4 DEF ListOK, Listed
<1> QED
  BY <1>1, <1>2, <1>3, <1>4

LEMMA TailList ==
  ASSUME m_list \in Seq(Fibers), m_list # <<>>, m_list' = Tail(m_list)
  PROVE  /\ m_list' \in Seq(Fibers)
         /\ Head(m_list) \in Fibers /\ Listed(Head(m_list))
         /\ \A g : Listed(g)' => Listed(g)
         /\ ListOK => /\ ListOK'
                      /\ \A g : Listed(g)' <=> Listed(g) /\ g # Head(m_list)
<1>1. /\ DOMAIN m_list = 1..Len(m_list)
      /\ Len(m_list) \in Nat /\ Len(m_list) > 0
      /\ DOMAIN m_list' = 1..(Len(m_list) - 1)
      /\ \A i \in 1..(Len(m_list) - 1) : m_list'[i] = m_list[i + 1]
      /\ Head(m_list) = m_list[1] /\ m_list[1] \in Fibers
      /\ m_list' \in Seq(Fibers)
  OBVIOUS
<1>2. Listed(Head(m_list)) /\ \A g : Listed(g)' => Listed(g)
  BY <1>1 DEF Listed
<1>3. ASSUME ListOK PROVE ListOK'
  BY <1>1, <1>3 DEF ListOK
<1>4. ASSUME ListOK, NEW g PROVE Listed(g)' <=> Listed(g) /\ g # Head(m_list)
  <2>1. ASSUME Listed(g)' PROVE g # Head(m_list)
    <3>1. PICK i \in 1..(Len(m_list) - 1) : m_list[i + 1] = g
      BY <1>1, <2>1 DEF Listed
    <3> QED
      BY <1>1, <1>4, <3>1 DEF ListOK
  <2>2. ASSUME Listed(g), g # Head(m_list) PROVE Listed(g)'
    <3>1. PICK i \in 1..Len(m_list) : m_list[i] = g
      BY <1>1, <2>2 DEF Listed
    <3>2. i - 1 \in 1..(Len(m_list) - 1) /\ (i - 1) + 1 = i
      BY <1>1, <2>2, <3>1
    <3>3. m_list'[i - 1] = g
      BY <1>1, <3>1, <3>2
    <3> QED
      BY <1>1, <3>2, <3>3 DEF Listed
  <2> QED
    BY <1>2, <2>1, <2>2
<1> QED
  BY <1>1, <1>2, <1>3, <1>4

-----------------------------------------------------------------------------
(* Types.                                                                  *)

LEMMA Facts ==
  ASSUME TypeInv
  PROVE  /\ m_fibers \in Seq(Entry)
         /\ m_list \in Seq(Fibers)
         /\ m_num \in Nat
         /\ pc \in [Threads -> Where]
         /\ ft \in [Threads -> Entry]
         /\ need_tick \in [Threads -> BOOLEAN]
         /\ cb_fiber \in [Threads -> Fibers \cup {NoFiber}]
         /\ cur \in [Threads -> Fibers \cup {NoFiber}]
         /\ at \in [Threads -> Statements]
         /\ state \in [Fibers -> FiberState]
         /\ ctx \in [Fibers -> Statements]
         /\ m_cb \in [Fibers -> Tasks \cup {NoTask}]
         /\ sleeping \subseteq Fibers
         /\ submitted \subseteq Tasks
         /\ NoFiber \notin Fibers /\ NoTask \notin Tasks
  BY SchedulerAssumption DEF TypeInv, TypeOK, SchedulerTypeOK

LEMMA TypeInit == Init => TypeInv
<1> SUFFICES ASSUME Init PROVE TypeInv
  OBVIOUS
<1>1. SchedulerTypeOK(Statements)
  BY InitType DEF Init, Statements
<1>2. TypeOK
  BY <1>1, FiberSemaphoreAssumption DEF Init, TypeOK
<1>3. LoadedOK
  BY SchedulerAssumption
  DEF Init, SchedulerInit, LoadedOK, OnFiber, NoEntry, Queued, Listed
<1> QED
  BY <1>2, <1>3 DEF TypeInv

(* What a task does to the list of fibers that wait for a permit.          *)
LEMMA GrantFacts ==
  ASSUME TypeInv, Grant
  PROVE  /\ m_list # <<>> =>
              /\ m_list' = Tail(m_list) /\ m_num' = m_num
              /\ Schedule(FiberEntry(Head(m_list), AnyThread))
              /\ Head(m_list) \in Fibers /\ Listed(Head(m_list))
              /\ m_list' \in Seq(Fibers)
              /\ \A g : Listed(g)' => Listed(g)
              /\ \A g : Queued(g)' <=> Queued(g) \/ g = Head(m_list)
              /\ \A c \in Tasks : CbQueued(c)' <=> CbQueued(c)
         /\ m_list = <<>> => m_num' = m_num + 1 /\ UNCHANGED <<m_list, m_fibers>>
         /\ m_fibers' \in Seq(Entry)
<1>1. CASE m_list = <<>>
  BY <1>1, Facts DEF Grant, Increment
<1>2. CASE m_list # <<>>
  <2> DEFINE h == Head(m_list)
             e == FiberEntry(h, AnyThread)
  <2>1. m_list' = Tail(m_list) /\ m_num' = m_num /\ Schedule(e)
    BY <1>2 DEF Grant, HandTo
  <2>2. /\ h \in Fibers /\ Listed(h) /\ m_list' \in Seq(Fibers)
        /\ \A g : Listed(g)' => Listed(g)
    BY <1>2, <2>1, Facts, TailList
  <2>3. e \in Entry /\ e.fiber = h /\ e.cb = NoTask
    BY <2>2, EntryTypes DEF FiberEntry
  <2> HIDE DEF h, e
  <2>4. /\ m_fibers' \in Seq(Entry)
        /\ \A g : Queued(g)' <=> Queued(g) \/ g = h
        /\ \A c : CbQueued(c)' <=> CbQueued(c) \/ c = NoTask
    BY <2>1, <2>3, Facts, ScheduleQueue
  <2> QED
    BY <1>2, <2>1, <2>2, <2>3, <2>4, Facts DEF h, e
<1> QED
  BY <1>1, <1>2

(* The statements of a task that do not switch.                            *)
StepActions(t) ==
  Wait(t) \/ tryWait(t) \/ Notify(t) \/ WorkDone(t) \/ Consume(t) \/ WorkSuspends(t)

LEMMA LoadedStep == TypeInv /\ [Next]_vars => LoadedOK'
<1> SUFFICES ASSUME TypeInv, [Next]_vars PROVE LoadedOK'
  OBVIOUS
<1>0. TypeOK /\ LoadedOK
  BY DEF TypeInv
<1>1. ASSUME NEW c \in Tasks, Submit(c) PROVE LoadedOK'
  <2>1. /\ Schedule(CallbackEntry(c, AnyThread))
        /\ UNCHANGED <<pc, cur, ft, m_cb, m_list, sleeping>>
    BY <1>1 DEF Submit, ScheduleCallback, semVars
  <2>2. CallbackEntry(c, AnyThread) \in Entry
        /\ CallbackEntry(c, AnyThread).fiber = NoFiber
    BY EntryTypes DEF CallbackEntry
  <2>3. \A f \in Fibers : /\ Queued(f)' <=> Queued(f)
                          /\ Listed(f)' <=> Listed(f)
    BY <2>1, <2>2, Facts, ScheduleQueue, SameList
  <2> QED
    BY <1>0, <2>1, <2>3 DEF LoadedOK, Loaded
<1>2. ASSUME NEW f \in Fibers, WakeSleeper(f) PROVE LoadedOK'
  <2>1. /\ Schedule(FiberEntry(f, AnyThread))
        /\ f \in sleeping /\ sleeping' = sleeping \ {f}
        /\ UNCHANGED <<pc, cur, ft, m_cb, m_list>>
    BY <1>2 DEF WakeSleeper, semVars
  <2>2. FiberEntry(f, AnyThread) \in Entry /\ FiberEntry(f, AnyThread).fiber = f
    BY EntryTypes DEF FiberEntry
  <2>3. \A g \in Fibers : /\ Queued(g)' <=> Queued(g) \/ g = f
                          /\ Listed(g)' <=> Listed(g)
    BY <2>1, <2>2, Facts, ScheduleQueue, SameList
  <2> QED
    BY <1>0, <2>1, <2>3 DEF LoadedOK, Loaded
<1>3. ASSUME NEW t \in Threads, ThreadLoop(t) PROVE LoadedOK'
  <2>0. /\ UNCHANGED <<m_list, sleeping>>
        /\ \A g : Listed(g)' <=> Listed(g)
    BY <1>3, SameList DEF ThreadLoop, semVars
  <2>1. CASE ScanTake(t)
    <3>1. PICK i \in DOMAIN m_fibers :
            Erase(i) /\ ft' = [ft EXCEPT ![t] = m_fibers[i]]
      BY <2>1 DEF ScanTake
    <3>2. /\ \A f : Queued(f)' => Queued(f)
          /\ Queued(m_fibers[i].fiber)
      BY <3>1, Facts, EraseQueue
    <3> QED
      BY <1>0, <2>0, <2>1, <3>1, <3>2, Facts
      DEF ScanTake, LoadedOK, Loaded, OnFiber
  <2>2. CASE ScanNothing(t) \/ Idle(t)
    BY <1>0, <2>0, <2>2, SameQueue, Facts
    DEF ScanNothing, Idle, LoadedOK, Loaded, OnFiber
  <2>3. CASE Back(t)
    BY <1>0, <2>0, <2>3, SameQueue, Facts
    DEF Back, Continue, LoadedOK, Loaded, OnFiber, NoEntry
  <2>4. CASE SwapOut(t) \/ LeaveStack(t)
    BY <1>0, <2>0, <2>4, SameQueue, Facts
    DEF SwapOut, LeaveStack, LoadedOK, Loaded, OnFiber
  <2>5. CASE ResumeFiber(t)
    <3> DEFINE f == ft[t].fiber
    <3>1. f \in Fibers /\ Loaded(f)
      BY <1>0, <2>5, Facts DEF ResumeFiber, Entry, LoadedOK
    <3>2. CASE Dropped(f)
      BY <1>0, <2>0, <2>5, <3>2, SameQueue, Facts
      DEF ResumeFiber, Continue, LoadedOK, Loaded, OnFiber, NoEntry
    <3>3. CASE ~Dropped(f)
      BY <1>0, <2>0, <2>5, <3>1, <3>3, SameQueue, Facts
      DEF ResumeFiber, SwitchTo, LoadedOK, Loaded, OnFiber
    <3> QED
      BY <3>2, <3>3
  <2>6. CASE StartCallback(t)
    <3>1. PICK f \in Fibers : Reset(f, ft[t].cb) /\ SwitchTo(t, f, "begin")
      BY <2>6 DEF StartCallback
    <3>2. ft[t].cb \in Tasks
      BY <2>6, Facts DEF StartCallback, Entry
    <3>3. \A g : (Loaded(g) => Loaded(g)') /\ Loaded(f)'
      BY <3>1, <3>2, Facts DEF Reset, Loaded
    <3> QED
      BY <1>0, <2>0, <2>6, <3>1, <3>3, SameQueue, Facts
      DEF StartCallback, SwitchTo, LoadedOK, OnFiber
  <2> QED
    BY <1>3, <2>1, <2>2, <2>3, <2>4, <2>5, <2>6 DEF ThreadLoop, Loop, Enter
<1>4. ASSUME NEW t \in Threads, TaskStep(t) PROVE LoadedOK'
  <2>0. pc[t] = "fiber" /\ Loaded(cur[t])
    BY <1>0, <1>4
    DEF TaskStep, Wait, WaitYield, tryWait, Notify, WorkDone, Consume,
        WorkSuspends, SleepYield, Finish, Executing, LoadedOK, OnFiber
  <2>1. CASE Wait(t)
    <3>1. UNCHANGED <<m_fibers, pc, cur, ft, m_cb, sleeping>>
      BY <2>1 DEF Wait, Step
    <3>2. \A g : Listed(g)' => Listed(g) \/ g = cur[t]
      <4>1. CASE m_list' = m_list
        BY <4>1, SameList
      <4>2. CASE m_list' = Append(m_list, cur[t])
        BY <2>0, <4>2, Facts, AppendList DEF Loaded
      <4> QED
        BY <2>1, <4>1, <4>2 DEF Wait
    <3> QED
      BY <1>0, <2>0, <3>1, <3>2, SameQueue DEF LoadedOK, Loaded
  <2>2. CASE tryWait(t) \/ WorkDone(t) \/ Consume(t)
    <3>1. UNCHANGED <<m_fibers, pc, cur, ft, m_cb, sleeping, m_list>>
      BY <2>2 DEF tryWait, WorkDone, Consume, Step, semVars
    <3> QED
      BY <1>0, <3>1, SameQueue, SameList DEF LoadedOK, Loaded
  <2>3. CASE WorkSuspends(t)
    <3>1. /\ UNCHANGED <<m_fibers, pc, cur, ft, m_cb, m_list>>
          /\ sleeping' = sleeping \cup {cur[t]}
      BY <2>3 DEF WorkSuspends, Step, semVars
    <3> QED
      BY <1>0, <2>0, <3>1, SameQueue, SameList DEF LoadedOK, Loaded
  <2>4. CASE Notify(t)
    <3>1. UNCHANGED <<pc, cur, ft, m_cb, sleeping>> /\ Grant
      BY <2>4 DEF Notify, Step
    <3>2. \A g \in Fibers : /\ Listed(g)' => Listed(g)
                            /\ Queued(g)' => Queued(g) \/ Listed(g)
      <4>1. CASE m_list = <<>>
        BY <3>1, <4>1, GrantFacts, SameList, SameQueue
      <4>2. CASE m_list # <<>>
        BY <3>1, <4>2, GrantFacts
      <4> QED
        BY <4>1, <4>2
    <3> QED
      BY <1>0, <3>1, <3>2 DEF LoadedOK, Loaded
  <2>5. CASE WaitYield(t) \/ SleepYield(t) \/ Finish(t)
    <3>1. /\ UNCHANGED <<m_fibers, cur, ft, m_cb, sleeping, m_list>>
          /\ \A u \in Threads : pc'[u] \in OnFiber => pc[u] \in OnFiber
      BY <2>0, <2>5, Facts
      DEF WaitYield, SleepYield, Finish, YieldTo, EndTask, OnFiber, semVars
    <3> QED
      BY <1>0, <3>1, SameQueue, SameList DEF LoadedOK, Loaded
  <2> QED
    BY <1>4, <2>1, <2>2, <2>3, <2>4, <2>5 DEF TaskStep
<1>5. CASE UNCHANGED vars
  BY <1>0, <1>5, SameQueue, SameList
  DEF vars, schedVars, semVars, LoadedOK, Loaded
<1> QED
  BY <1>1, <1>2, <1>3, <1>4, <1>5 DEF Next

LEMMA TypeStep == TypeInv /\ [Next]_vars => TypeOK'
<1> SUFFICES ASSUME TypeInv, [Next]_vars PROVE TypeOK'
  OBVIOUS
<1>0. /\ TypeOK /\ LoadedOK /\ "begin" \in Statements
      /\ SchedulerTypeOK(Statements)
  BY DEF TypeInv, TypeOK, Statements
<1>t. /\ m_num \in Nat /\ m_list \in Seq(Fibers) /\ sleeping \subseteq Fibers
      /\ submitted \subseteq Tasks /\ ended \subseteq Tasks
      /\ produced \in Nat /\ consumed \in Nat
  BY <1>0 DEF TypeOK
<1>1. ASSUME NEW c \in Tasks, Submit(c) PROVE TypeOK'
  <2>1. SchedulerTypeOK(Statements)'
    BY <1>0, <1>1, ScheduleCallbackType DEF Submit
  <2> QED
    BY <1>t, <1>1, <2>1 DEF Submit, semVars, TypeOK
<1>2. ASSUME NEW f \in Fibers, WakeSleeper(f) PROVE TypeOK'
  <2>1. m_fibers' \in Seq(Entry)
    BY <1>0, <1>2, EntryTypes, ScheduleType DEF WakeSleeper, SchedulerTypeOK
  <2>2. SchedulerTypeOK(Statements)'
    BY <1>0, <1>2, <2>1 DEF WakeSleeper, SchedulerTypeOK
  <2> QED
    BY <1>t, <1>2, <2>2 DEF WakeSleeper, semVars, historyVars, TypeOK
<1>3. ASSUME NEW t \in Threads, ThreadLoop(t) PROVE TypeOK'
  <2>1. SchedulerTypeOK(Statements)'
    BY <1>0, <1>3, LoopType, EnterType DEF ThreadLoop
  <2> QED
    BY <1>t, <1>3, <2>1 DEF ThreadLoop, semVars, historyVars, TypeOK
<1>4. ASSUME NEW t \in Threads, TaskStep(t) PROVE TypeOK'
  <2>0. cur[t] \in Fibers /\ m_cb[cur[t]] \in Tasks
    BY <1>0, <1>4
    DEF TaskStep, Wait, WaitYield, tryWait, Notify, WorkDone, Consume,
        WorkSuspends, SleepYield, Finish, Executing, LoadedOK, Loaded, OnFiber
  <2>1. CASE StepActions(t)
    <3>1. PICK s \in Statements : Step(t, s)
      BY <2>1
      DEF StepActions, Wait, tryWait, Notify, WorkDone, Consume, WorkSuspends,
          Statements
    <3>2. m_fibers' \in Seq(Entry)
      <4>1. CASE Notify(t)
        BY <4>1, GrantFacts DEF Notify
      <4>2. CASE ~Notify(t)
        BY <2>1, <4>2, Facts
        DEF StepActions, Wait, tryWait, WorkDone, Consume, WorkSuspends
      <4> QED
        BY <4>1, <4>2
    <3>3. SchedulerTypeOK(Statements)'
      BY <1>0, <3>1, <3>2, StepType
    <3>4. m_list' \in Seq(Fibers) /\ m_num' \in Nat
      <4>1. CASE Notify(t)
        BY <1>t, <4>1, GrantFacts DEF Notify
      <4>2. CASE Wait(t)
        BY <1>t, <2>0, <4>2, AppendList DEF Wait
      <4>3. CASE ~Notify(t) /\ ~Wait(t)
        BY <1>t, <2>1, <4>3
        DEF StepActions, tryWait, WorkDone, Consume, WorkSuspends, semVars
      <4> QED
        BY <4>1, <4>2, <4>3
    <3>5. /\ sleeping' \subseteq Fibers /\ submitted' = submitted /\ ended' = ended
          /\ produced' \in Nat /\ consumed' \in Nat
      BY <1>t, <2>0, <2>1
      DEF StepActions, Wait, tryWait, Notify, WorkDone, Consume, WorkSuspends,
          historyVars, semVars
    <3> QED
      BY <1>t, <3>3, <3>4, <3>5 DEF TypeOK
  <2>2. CASE WaitYield(t) \/ SleepYield(t)
    <3>1. SchedulerTypeOK(Statements)'
      BY <1>0, <2>2, YieldToType DEF WaitYield, SleepYield, Statements, FiberState
    <3> QED
      BY <1>t, <2>2, <3>1 DEF WaitYield, SleepYield, semVars, historyVars, TypeOK
  <2>3. CASE Finish(t)
    <3>1. SchedulerTypeOK(Statements)'
      BY <1>0, <2>3, EndTaskType DEF Finish, FiberState
    <3> QED
      BY <1>t, <2>0, <2>3, <3>1 DEF Finish, semVars, TypeOK
  <2> QED
    BY <1>4, <2>1, <2>2, <2>3 DEF TaskStep, StepActions
<1>5. CASE UNCHANGED vars
  <2>1. SchedulerTypeOK(Statements)'
    BY <1>0, <1>5 DEF vars, schedVars, SchedulerTypeOK
  <2> QED
    BY <1>t, <1>5, <2>1 DEF vars, semVars, historyVars, TypeOK
<1> QED
  BY <1>1, <1>2, <1>3, <1>4, <1>5 DEF Next

(* Every variable of the semaphore and of the scheduler under it keeps its *)
(* type, m_num included, which is never decremented below 0.               *)
THEOREM SemaphoreTypes == Spec => []TypeOK
<1>1. TypeInv /\ [Next]_vars => TypeInv'
  BY LoadedStep, TypeStep DEF TypeInv
<1>2. TypeInv => TypeOK
  BY DEF TypeInv
<1> QED
  BY <1>1, <1>2, TypeInit, PTL DEF Spec

-----------------------------------------------------------------------------
(* What the proofs of all actions use.                                     *)

(* The statement of a fiber is that of the thread that executes it, or     *)
(* that of its context, before a step and after it.                        *)
LEMMA StatementFacts ==
  ASSUME TypeInv, StacksOK, NEW f \in Fibers
  PROVE  /\ \A t \in Threads : cur[t] = f => StatementOf(f) = at[t]
         /\ (\A t \in Threads : cur[t] # f) => StatementOf(f) = ctx[f]
<1>1. f # NoFiber
  BY Facts
<1>2. \A t, u \in Threads : cur[t] = f /\ cur[u] = f => t = u
  BY <1>1 DEF StacksOK
<1>3. ASSUME NEW t \in Threads, cur[t] = f PROVE StatementOf(f) = at[t]
  <2>1. (CHOOSE u \in Threads : cur[u] = f) = t
    BY <1>2, <1>3
  <2> QED
    BY <1>3, <2>1 DEF StatementOf
<1>4. (\A t \in Threads : cur[t] # f) => StatementOf(f) = ctx[f]
  BY DEF StatementOf
<1> QED
  BY <1>3, <1>4

LEMMA NextStatement ==
  ASSUME StacksOK', NEW f \in Fibers, NoFiber \notin Fibers
  PROVE  /\ \A t \in Threads : cur'[t] = f => StatementOf(f)' = at'[t]
         /\ (\A t \in Threads : cur'[t] # f) => StatementOf(f)' = ctx'[f]
<1>2. \A t, u \in Threads : cur'[t] = f /\ cur'[u] = f => t = u
  BY DEF StacksOK
<1>3. ASSUME NEW t \in Threads, cur'[t] = f PROVE StatementOf(f)' = at'[t]
  <2>1. (CHOOSE u \in Threads : cur'[u] = f) = t
    BY <1>2, <1>3
  <2> QED
    BY <1>3, <2>1 DEF StatementOf
<1>4. (\A t \in Threads : cur'[t] # f) => StatementOf(f)' = ctx'[f]
  BY DEF StatementOf
<1> QED
  BY <1>3, <1>4

(* A fiber of which nothing changes that its part of the invariant reads.  *)
Same(g) ==
  /\ state'[g] = state[g]
  /\ m_cb'[g] = m_cb[g]
  /\ state[g] \in {"EXEC", "HOLD"} => StatementOf(g)' = StatementOf(g)
  /\ Listed(g)' <=> Listed(g)
  /\ g \in sleeping' <=> g \in sleeping
  /\ Queued(g)' <=> Queued(g)
  /\ Taken(g)' <=> Taken(g)
  /\ OneTaker(g) => OneTaker(g)'

(* Nor does it get or lose a permit, and a step that moves no permit and   *)
(* no waiter is quiet.                                                     *)
SamePermit(g) ==
  /\ Holds(g)' <=> Holds(g)
  /\ Holds(g) \/ Listed(g) => m_cb'[g] = m_cb[g]

Quiet == UNCHANGED <<m_num, m_list>> /\ \A g \in Fibers : SamePermit(g)

LEMMA SameFiber ==
  ASSUME NEW g \in Fibers, FiberOK(g), Same(g)
  PROVE  FiberOK(g)' /\ SamePermit(g)
<1>1. HasWakeup(g)' <=> HasWakeup(g)
  BY DEF Same, HasWakeup
<1>2. OnePlace(g)'
  BY DEF Same, FiberOK, OnePlace
<1>3. HasWakeup(g) => state[g] \in {"EXEC", "HOLD"}
  BY DEF FiberOK, Entered
<1>4. FiberOK(g)'
  BY <1>1, <1>2, <1>3 DEF Same, FiberOK, Entered, HasWakeup
<1>5. SamePermit(g)
  BY DEF Same, SamePermit, Holds
<1> QED
  BY <1>4, <1>5

(* The thread that takes a step in a task executes on a fiber of its own.  *)
LEMMA ExecutingFacts ==
  ASSUME TypeInv, BeforeClash, NEW t \in Threads, pc[t] = "fiber"
  PROVE  /\ cur[t] \in Fibers
         /\ m_cb[cur[t]] \in Tasks
         /\ state[cur[t]] = "EXEC"
         /\ \A u \in Threads \ {t} : cur[u] # cur[t]
         /\ StatementOf(cur[t]) = at[t]
         /\ HasWakeup(cur[t]) <=> at[t] \in {"yield", "sleep"}
         /\ ~Taken(cur[t])
         /\ FiberOK(cur[t])
<1>1. cur[t] \in Fibers /\ m_cb[cur[t]] \in Tasks
  BY DEF TypeInv, LoadedOK, Loaded, OnFiber
<1>2. state[cur[t]] = "EXEC" /\ \A u \in Threads \ {t} : cur[u] # cur[t]
  BY <1>1, Facts DEF BeforeClash, StacksOK, StackOK
<1>3. StatementOf(cur[t]) = at[t]
  BY <1>1, StatementFacts DEF BeforeClash
<1> QED
  BY <1>1, <1>2, <1>3 DEF BeforeClash, FibersOK, FiberOK

(* A fiber is resumed once, from its suspension.                           *)
LEMMA TakenFacts ==
  ASSUME TypeInv, BeforeClash, NEW t \in Threads, pc[t] = "take",
         ft[t].fiber # NoFiber
  PROVE  /\ ft[t].fiber \in Fibers
         /\ state[ft[t].fiber] = "HOLD"
         /\ ft[t].cb = NoTask
         /\ FiberOK(ft[t].fiber)
<1>1. ft[t].fiber \in Fibers /\ WellFormed(ft[t])
  BY Facts DEF Entry, BeforeClash, HeldOK, Holding
<1>2. Taken(ft[t].fiber) /\ FiberOK(ft[t].fiber)
  BY <1>1 DEF Taken, BeforeClash, FibersOK
<1> QED
  BY <1>1, <1>2 DEF FiberOK, WellFormed

(* The parts that only depend on variables the step leaves alone.          *)
LEMMA Frame ==
  ASSUME BeforeClash
  PROVE  /\ UNCHANGED <<pc, ft>> => HeldOK'
         /\ UNCHANGED <<pc, cur, state>> => StacksOK'
         /\ UNCHANGED <<pc, ft, cb_fiber, state>> => CbFibersOK'
         /\ UNCHANGED m_list => ListOK'
         /\ UNCHANGED <<m_num, m_list>> => NoIdlePermit'
  BY DEF BeforeClash, HeldOK, StacksOK, StackOK, CbFibersOK, CbFiberOK,
         ListOK, NoIdlePermit

(* The tasks when nobody takes a callback and no fiber starts to run one.  *)
LEMMA SameTasks ==
  ASSUME BeforeClash, submitted' = submitted,
         \A c \in Tasks : CbQueued(c)' <=> CbQueued(c),
         \A t \in Threads : /\ pc'[t] = "take" => pc[t] = "take"
                            /\ pc'[t] = "take" => ft'[t] = ft[t],
         \A f \in Fibers : /\ m_cb'[f] = m_cb[f]
                           /\ Entered(f)' => Entered(f)
  PROVE  TasksOK'
<1>1. ASSUME NEW c \in Tasks PROVE TaskOK(c)'
  <2>1. TaskOK(c)
    BY DEF BeforeClash, TasksOK
  <2>2. CbTaken(c)' => CbTaken(c)
    BY DEF CbTaken
  <2>3. \A f \in Fibers : Runs(f, c)' => Runs(f, c)
    BY DEF Runs
  <2> QED
    BY <2>1, <2>2, <2>3 DEF TaskOK
<1> QED
  BY <1>1 DEF TasksOK

(* A step of a task that does not switch: only the statement of its fiber  *)
(* changes.                                                                *)
LEMMA StepFrame ==
  ASSUME TypeInv, BeforeClash, NEW t \in Threads, pc[t] = "fiber",
         NEW f \in Fibers, cur[t] = f, NEW s \in Statements, Step(t, s)
  PROVE  /\ HeldOK' /\ StacksOK' /\ CbFibersOK'
         /\ StatementOf(f)' = s
         /\ state'[f] = "EXEC"
         /\ \A g \in Fibers \ {f} : StatementOf(g)' = StatementOf(g)
         /\ \A g \in Fibers : state'[g] = state[g] /\ m_cb'[g] = m_cb[g]
         /\ \A g : /\ Taken(g)' <=> Taken(g)
                   /\ OneTaker(g)' <=> OneTaker(g)
         /\ (/\ submitted' = submitted
             /\ \A c \in Tasks : CbQueued(c)' <=> CbQueued(c)) => TasksOK'
<1>0. UNCHANGED <<pc, ft, cb_fiber, cur, state, ctx, m_cb>>
  BY DEF Step
<1>1. HeldOK' /\ StacksOK' /\ CbFibersOK'
  BY <1>0, Frame
<1>2. at'[t] = s /\ \A u \in Threads \ {t} : at'[u] = at[u]
  BY Facts DEF Step
<1>3. StatementOf(f)' = s
  BY <1>0, <1>1, <1>2, ExecutingFacts, Facts, NextStatement
<1>4. ASSUME NEW g \in Fibers \ {f}
      PROVE  StatementOf(g)' = StatementOf(g)
  <2>1. CASE \E u \in Threads : cur[u] = g
    <3>1. PICK u \in Threads : cur[u] = g
      BY <2>1
    <3>2. u # t /\ StatementOf(g) = at[u]
      BY <3>1, <1>4, StatementFacts DEF BeforeClash
    <3>3. StatementOf(g)' = at'[u]
      BY <1>0, <1>1, <3>1, Facts, NextStatement
    <3> QED
      BY <1>2, <3>2, <3>3
  <2>2. CASE \A u \in Threads : cur[u] # g
    <3>1. StatementOf(g) = ctx[g]
      BY <2>2, StatementFacts DEF BeforeClash
    <3>2. StatementOf(g)' = ctx'[g]
      BY <1>0, <1>1, <2>2, Facts, NextStatement
    <3> QED
      BY <1>0, <3>1, <3>2
  <2> QED
    BY <2>1, <2>2
<1>5. \A g : /\ Taken(g)' <=> Taken(g)
             /\ OneTaker(g)' <=> OneTaker(g)
  BY <1>0 DEF Taken, OneTaker
<1>6. ASSUME submitted' = submitted,
             \A c \in Tasks : CbQueued(c)' <=> CbQueued(c)
      PROVE  TasksOK'
  BY <1>0, <1>6, SameTasks DEF Entered
<1>7. state'[f] = "EXEC"
  BY <1>0, ExecutingFacts
<1> QED
  BY <1>0, <1>1, <1>3, <1>4, <1>5, <1>6, <1>7

-----------------------------------------------------------------------------
(* One lemma per action, or per group that moves a fiber in the same way.  *)

(* wait(): the fiber takes a permit, or gets to the end of m_list.         *)
LEMMA WaitStep ==
  ASSUME TypeInv, BeforeClash, NEW t \in Threads, Wait(t)
  PROVE  BeforeClash'
<1>f. PICK f \in Fibers : cur[t] = f
  BY ExecutingFacts DEF Wait, Executing
<1>0. /\ pc[t] = "fiber" /\ at[t] = "begin"
      /\ UNCHANGED <<m_fibers, sleeping, submitted>>
  BY DEF Wait, Executing, historyVars
<1>1. /\ state[f] = "EXEC" /\ ~HasWakeup(f) /\ FiberOK(f)
      /\ m_cb[f] \in Tasks
  BY <1>0, <1>f, ExecutingFacts
<1>2. QueueOK' /\ (\A g : Queued(g)' <=> Queued(g)) /\ \A c : CbQueued(c)' <=> CbQueued(c)
  BY <1>0, SameQueue DEF BeforeClash
<1>3. CASE m_num > 0
  <2>1. Step(t, "work") /\ UNCHANGED m_list /\ m_num' = m_num - 1
    BY <1>3 DEF Wait
  <2>2. ListOK' /\ \A g : Listed(g)' <=> Listed(g)
    BY <2>1, SameList DEF BeforeClash
  <2>3. NoIdlePermit'
    BY <1>3, <2>1 DEF BeforeClash, NoIdlePermit
  <2>4. FiberOK(f)'
    BY <1>0, <1>1, <1>2, <2>1, <2>2, <1>f, StepFrame
    DEF FiberOK, OnePlace, HasWakeup, Entered, Statements
  <2>5. \A g \in Fibers \ {f} : FiberOK(g)'
    BY <1>0, <1>2, <2>1, <2>2, <1>f, StepFrame, SameFiber
    DEF Same, BeforeClash, FibersOK, Statements
  <2>6. FibersOK'
    BY <2>4, <2>5 DEF FibersOK
  <2>7. HeldOK' /\ StacksOK' /\ CbFibersOK' /\ TasksOK'
    BY <1>0, <1>2, <2>1, <1>f, StepFrame DEF Statements
  <2> QED
    BY <1>2, <2>2, <2>3, <2>6, <2>7 DEF BeforeClash
<1>4. CASE ~(m_num > 0)
  <2>1. Step(t, "yield") /\ m_list' = Append(m_list, f) /\ m_num' = m_num
    BY <1>f, <1>4 DEF Wait
  <2>2. ListOK' /\ \A g : Listed(g)' <=> Listed(g) \/ g = f
    BY <1>1, <2>1, Facts, AppendList DEF BeforeClash, HasWakeup
  <2>3. NoIdlePermit'
    BY <1>4, <2>1 DEF NoIdlePermit
  <2>4. FiberOK(f)'
    BY <1>0, <1>1, <1>2, <2>1, <2>2, <1>f, StepFrame
    DEF FiberOK, OnePlace, HasWakeup, Entered, Statements
  <2>5. \A g \in Fibers \ {f} : FiberOK(g)'
    BY <1>0, <1>2, <2>1, <2>2, <1>f, StepFrame, SameFiber
    DEF Same, BeforeClash, FibersOK, Statements
  <2>6. FibersOK'
    BY <2>4, <2>5 DEF FibersOK
  <2>7. HeldOK' /\ StacksOK' /\ CbFibersOK' /\ TasksOK'
    BY <1>0, <1>2, <2>1, <1>f, StepFrame DEF Statements
  <2> QED
    BY <1>2, <2>2, <2>3, <2>6, <2>7 DEF BeforeClash
<1> QED
  BY <1>3, <1>4

(* tryWait(), the end of the work, and its suspension: m_list and m_fibers *)
(* stay as they are.                                                       *)
LEMMA WorkStep ==
  ASSUME TypeInv, BeforeClash, NEW t \in Threads,
         tryWait(t) \/ WorkDone(t) \/ Consume(t) \/ WorkSuspends(t)
  PROVE  BeforeClash'
<1>f. PICK f \in Fibers : cur[t] = f
  BY ExecutingFacts DEF tryWait, WorkDone, Consume, WorkSuspends, Executing
<1>0. /\ pc[t] = "fiber" /\ at[t] \in {"begin", "work"}
      /\ UNCHANGED <<m_fibers, m_list, submitted>>
      /\ m_num' = m_num \/ m_num > 0
  BY DEF tryWait, WorkDone, Consume, WorkSuspends, Executing, historyVars, semVars
<1>s. PICK s \in {"work", "leave", "release", "sleep"} :
        /\ Step(t, s)
        /\ sleeping' = IF s = "sleep" THEN sleeping \cup {f} ELSE sleeping
  BY <1>f DEF tryWait, WorkDone, Consume, WorkSuspends
<1>t. s \in Statements
  BY DEF Statements
<1>1. /\ state[f] = "EXEC" /\ ~HasWakeup(f) /\ FiberOK(f)
      /\ m_cb[f] \in Tasks
  BY <1>0, <1>f, ExecutingFacts
<1>2. /\ QueueOK' /\ (\A g : Queued(g)' <=> Queued(g))
      /\ \A c : CbQueued(c)' <=> CbQueued(c)
      /\ ListOK' /\ \A g : Listed(g)' <=> Listed(g)
  BY <1>0, SameQueue, SameList DEF BeforeClash
<1>3. NoIdlePermit'
  BY <1>0 DEF BeforeClash, NoIdlePermit
<1>4. FiberOK(f)'
  BY <1>0, <1>s, <1>t, <1>1, <1>2, <1>f, StepFrame
  DEF FiberOK, OnePlace, HasWakeup, Entered
<1>5. \A g \in Fibers \ {f} : FiberOK(g)'
  BY <1>0, <1>s, <1>t, <1>2, <1>f, StepFrame, SameFiber
  DEF Same, BeforeClash, FibersOK
<1>6. FibersOK'
  BY <1>4, <1>5 DEF FibersOK
<1>7. HeldOK' /\ StacksOK' /\ CbFibersOK' /\ TasksOK'
  BY <1>0, <1>s, <1>t, <1>2, <1>f, StepFrame
<1> QED
  BY <1>2, <1>3, <1>6, <1>7 DEF BeforeClash

(* notify(): the first fiber of m_list moves to m_fibers, whether it has   *)
(* yielded or is about to.                                                 *)
LEMMA NotifyStep ==
  ASSUME TypeInv, BeforeClash, NEW t \in Threads, Notify(t)
  PROVE  BeforeClash'
<1>f. PICK f \in Fibers : cur[t] = f
  BY ExecutingFacts DEF Notify, Executing
<1>0. /\ pc[t] = "fiber" /\ at[t] \in {"release", "begin"}
      /\ UNCHANGED <<sleeping, submitted>>
      /\ Step(t, "leave") /\ Grant /\ "leave" \in Statements
  BY DEF Notify, Executing, Statements
<1>1. /\ state[f] = "EXEC" /\ ~HasWakeup(f) /\ FiberOK(f)
      /\ m_cb[f] \in Tasks
  BY <1>0, <1>f, ExecutingFacts
<1>2. CASE m_list = <<>>
  <2>1. UNCHANGED <<m_list, m_fibers>>
    BY <1>0, <1>2, GrantFacts
  <2>2. /\ QueueOK' /\ (\A g : Queued(g)' <=> Queued(g))
        /\ \A c : CbQueued(c)' <=> CbQueued(c)
        /\ ListOK' /\ \A g : Listed(g)' <=> Listed(g)
    BY <2>1, SameQueue, SameList DEF BeforeClash
  <2>3. NoIdlePermit'
    BY <1>2, <2>1 DEF NoIdlePermit
  <2>4. FiberOK(f)'
    BY <1>0, <1>1, <2>2, <1>f, StepFrame
    DEF FiberOK, OnePlace, HasWakeup, Entered
  <2>5. \A g \in Fibers \ {f} : FiberOK(g)'
    BY <1>0, <2>2, <1>f, StepFrame, SameFiber
    DEF Same, BeforeClash, FibersOK
  <2>6. FibersOK'
    BY <2>4, <2>5 DEF FibersOK
  <2>7. HeldOK' /\ StacksOK' /\ CbFibersOK' /\ TasksOK'
    BY <1>0, <2>2, <1>f, StepFrame
  <2> QED
    BY <2>2, <2>3, <2>6, <2>7 DEF BeforeClash
<1>3. CASE m_list # <<>>
  <2>h. PICK h : h = Head(m_list)
    OBVIOUS
  <2>1. /\ m_list' = Tail(m_list) /\ m_num' = m_num
        /\ h \in Fibers /\ Listed(h)
        /\ Schedule(FiberEntry(h, AnyThread))
        /\ \A g : Queued(g)' <=> Queued(g) \/ g = h
        /\ \A c \in Tasks : CbQueued(c)' <=> CbQueued(c)
    BY <1>0, <1>3, <2>h, GrantFacts
  <2>2. ListOK' /\ \A g : Listed(g)' <=> Listed(g) /\ g # h
    BY <1>3, <2>1, <2>h, Facts, TailList DEF BeforeClash
  <2>3. NoIdlePermit'
    BY <1>3, <2>1, Facts DEF BeforeClash, NoIdlePermit
  <2>4. h # f /\ FiberOK(h) /\ ~Queued(h)
    BY <1>1, <2>1 DEF HasWakeup, BeforeClash, FibersOK, FiberOK, OnePlace
  <2>5. QueueOK'
    <3>1. /\ FiberEntry(h, AnyThread) \in Entry
          /\ FiberEntry(h, AnyThread).fiber = h
          /\ FiberEntry(h, AnyThread).cb = NoTask
          /\ WellFormed(FiberEntry(h, AnyThread))
      BY <2>1, EntryTypes, Facts DEF FiberEntry, WellFormed
    <3> QED
      BY <2>1, <2>4, <3>1, Facts, ScheduleQueue DEF BeforeClash
  <2>6. FiberOK(f)'
    BY <1>0, <1>1, <2>1, <2>2, <2>4, <1>f, StepFrame
    DEF FiberOK, OnePlace, HasWakeup, Entered
  <2>7. FiberOK(h)'
    <3>1. StatementOf(h)' = StatementOf(h) /\ state'[h] = state[h]
          /\ m_cb'[h] = m_cb[h] /\ (Taken(h)' <=> Taken(h))
          /\ (OneTaker(h)' <=> OneTaker(h))
      BY <1>0, <2>1, <2>4, <1>f, StepFrame
    <3>2. ~Listed(h)' /\ Queued(h)' /\ h \notin sleeping' /\ ~Taken(h)'
      BY <1>0, <2>1, <2>2, <2>4, <3>1 DEF FiberOK, OnePlace
    <3>3. OnePlace(h)'
      BY <2>4, <3>1, <3>2 DEF FiberOK, OnePlace
    <3> QED
      BY <2>1, <2>4, <3>1, <3>2, <3>3 DEF FiberOK, HasWakeup, Entered
  <2>8. \A g \in Fibers \ {f, h} : FiberOK(g)'
    BY <1>0, <2>1, <2>2, <1>f, StepFrame, SameFiber
    DEF Same, BeforeClash, FibersOK
  <2>9. FibersOK'
    BY <2>6, <2>7, <2>8 DEF FibersOK
  <2>10. HeldOK' /\ StacksOK' /\ CbFibersOK' /\ TasksOK'
    BY <1>0, <2>1, <1>f, StepFrame
  <2> QED
    BY <2>2, <2>3, <2>5, <2>9, <2>10 DEF BeforeClash
<1> QED
  BY <1>2, <1>3

(* The statements of the fibers when no thread changes its own ...         *)
LEMMA SameStatements ==
  ASSUME TypeInv, StacksOK, StacksOK', NEW g \in Fibers,
         \A u \in Threads : cur'[u] = g <=> cur[u] = g,
         \A u \in Threads : cur[u] = g => at'[u] = at[u],
         ctx'[g] = ctx[g]
  PROVE  StatementOf(g)' = StatementOf(g)
<1>1. CASE \E u \in Threads : cur[u] = g
  <2>1. PICK u \in Threads : cur[u] = g
    BY <1>1
  <2>2. StatementOf(g) = at[u] /\ StatementOf(g)' = at'[u]
    BY <2>1, Facts, StatementFacts, NextStatement
  <2> QED
    BY <2>1, <2>2
<1>2. CASE \A u \in Threads : cur[u] # g
  <2>1. StatementOf(g) = ctx[g] /\ StatementOf(g)' = ctx'[g]
    BY <1>2, Facts, StatementFacts, NextStatement
  <2> QED
    BY <2>1
<1> QED
  BY <1>1, <1>2

(* ... and the entries when none is taken or resumed.                      *)
LEMMA SameTaken ==
  ASSUME \A t \in Threads : /\ pc'[t] = "take" <=> pc[t] = "take"
                            /\ pc[t] = "take" => ft'[t] = ft[t]
  PROVE  /\ \A g : /\ Taken(g)' <=> Taken(g)
                   /\ OneTaker(g)' <=> OneTaker(g)
         /\ \A c : CbTaken(c)' <=> CbTaken(c)
  BY DEF Taken, OneTaker, CbTaken

(* The fiber publishes that it is suspended, at the end of wait() or in    *)
(* its work.                                                               *)
LEMMA YieldStep ==
  ASSUME TypeInv, BeforeClash, NEW t \in Threads,
         WaitYield(t) \/ SleepYield(t)
  PROVE  BeforeClash' /\ Quiet
<1>f. PICK f \in Fibers, s \in {"work", "release"} :
        /\ cur[t] = f /\ pc[t] = "fiber"
        /\ YieldTo(t, "HOLD", s)
        /\ \/ at[t] = "yield" /\ s = "work"
           \/ at[t] = "sleep" /\ s = "release"
  BY ExecutingFacts DEF WaitYield, SleepYield, Executing
<1>0. /\ UNCHANGED <<m_fibers, ft, cb_fiber, cur, ctx, m_cb, m_list, m_num,
                     sleeping, submitted>>
      /\ pc' = [pc EXCEPT ![t] = "swapOut"]
      /\ at' = [at EXCEPT ![t] = s]
      /\ state' = [state EXCEPT ![f] = "HOLD"]
  BY <1>f DEF YieldTo, WaitYield, SleepYield, semVars, historyVars
<1>1. /\ state[f] = "EXEC" /\ HasWakeup(f) /\ FiberOK(f) /\ m_cb[f] \in Tasks
      /\ StatementOf(f) = at[t] /\ ~Taken(f)
      /\ \A u \in Threads \ {t} : cur[u] # f
  BY <1>f, ExecutingFacts
<1>2. /\ pc'[t] = "swapOut" /\ at'[t] = s /\ state'[f] = "HOLD"
      /\ \A g \in Fibers \ {f} : state'[g] = state[g]
      /\ \A u \in Threads \ {t} : pc'[u] = pc[u] /\ at'[u] = at[u]
  BY <1>0, Facts
<1>3. /\ QueueOK' /\ (\A g : Queued(g)' <=> Queued(g))
      /\ \A c : CbQueued(c)' <=> CbQueued(c)
      /\ ListOK' /\ (\A g : Listed(g)' <=> Listed(g))
      /\ NoIdlePermit'
  BY <1>0, SameQueue, SameList, Frame DEF BeforeClash
<1>4. \A g : /\ Taken(g)' <=> Taken(g)
             /\ OneTaker(g)' <=> OneTaker(g)
  BY <1>0, <1>2, <1>f, SameTaken
<1>5. HeldOK' /\ StacksOK'
  BY <1>0, <1>1, <1>2, <1>f, Facts
  DEF BeforeClash, HeldOK, Holding, StacksOK, StackOK, OnFiber
<1>6. CbFibersOK'
  <2>1. ASSUME NEW u \in Threads PROVE CbFiberOK(u)'
    BY <1>0, <1>1, <1>2, <1>f, Facts
    DEF BeforeClash, CbFibersOK, CbFiberOK, OnFiber
  <2> QED
    BY <1>0, <2>1 DEF BeforeClash, CbFibersOK
<1>7. FibersOK' /\ \A g \in Fibers : SamePermit(g)
  <2>1. StatementOf(f)' = s
    BY <1>0, <1>2, <1>5, <1>f, Facts, NextStatement
  <2>2. FiberOK(f)' /\ SamePermit(f)
    <3>1. OnePlace(f)' /\ HasWakeup(f)'
      BY <1>0, <1>1, <1>3, <1>4 DEF FiberOK, OnePlace, HasWakeup
    <3>2. /\ Listed(f) => at[t] = "yield"
          /\ f \in sleeping => at[t] = "sleep"
      BY <1>1, <1>f DEF FiberOK
    <3> QED
      BY <1>0, <1>1, <1>2, <1>3, <1>4, <1>f, <2>1, <3>1, <3>2 DEF FiberOK, Entered, SamePermit, Holds
  <2>3. ASSUME NEW g \in Fibers \ {f} PROVE FiberOK(g)' /\ SamePermit(g)
    <3>1. StatementOf(g)' = StatementOf(g)
      BY <1>0, <1>2, <1>5, <1>f, SameStatements DEF BeforeClash
    <3>2. FiberOK(g) /\ Same(g)
      BY <1>0, <1>2, <1>3, <1>4, <3>1 DEF Same, BeforeClash, FibersOK
    <3> QED
      BY <3>2, SameFiber
  <2> QED
    BY <2>2, <2>3 DEF FibersOK
<1>8. TasksOK'
  BY <1>0, <1>1, <1>2, <1>3, <1>f, SameTasks DEF Entered
<1> QED
  BY <1>0, <1>3, <1>5, <1>6, <1>7, <1>8 DEF BeforeClash, Quiet

(* The callback returned.                                                  *)
LEMMA FinishStep ==
  ASSUME TypeInv, BeforeClash, NEW t \in Threads, Finish(t)
  PROVE  BeforeClash' /\ Quiet
<1>f. PICK f \in Fibers :
        /\ cur[t] = f /\ pc[t] = "fiber" /\ at[t] = "leave"
        /\ EndTask(t, "TERM")
  BY ExecutingFacts DEF Finish
<1>0. /\ UNCHANGED <<m_fibers, ft, cb_fiber, cur, at, ctx, m_cb, m_list, m_num,
                     sleeping, submitted>>
      /\ pc' = [pc EXCEPT ![t] = "exit"]
      /\ state' = [state EXCEPT ![f] = "TERM"]
  BY <1>f DEF EndTask, Finish, semVars
<1>1. /\ state[f] = "EXEC" /\ ~HasWakeup(f) /\ FiberOK(f)
      /\ StatementOf(f) = "leave"
      /\ \A u \in Threads \ {t} : cur[u] # f
  BY <1>f, ExecutingFacts
<1>2. /\ pc'[t] = "exit" /\ state'[f] = "TERM"
      /\ \A g \in Fibers \ {f} : state'[g] = state[g]
      /\ \A u \in Threads \ {t} : pc'[u] = pc[u]
  BY <1>0, Facts
<1>3. /\ QueueOK' /\ (\A g : Queued(g)' <=> Queued(g))
      /\ \A c : CbQueued(c)' <=> CbQueued(c)
      /\ ListOK' /\ (\A g : Listed(g)' <=> Listed(g))
      /\ NoIdlePermit'
  BY <1>0, SameQueue, SameList, Frame DEF BeforeClash
<1>4. \A g : /\ Taken(g)' <=> Taken(g)
             /\ OneTaker(g)' <=> OneTaker(g)
  BY <1>0, <1>2, <1>f, SameTaken
<1>5. HeldOK' /\ StacksOK'
  BY <1>0, <1>1, <1>2, <1>f, Facts
  DEF BeforeClash, HeldOK, Holding, StacksOK, StackOK, OnFiber
<1>6. CbFibersOK'
  <2>1. ASSUME NEW u \in Threads PROVE CbFiberOK(u)'
    BY <1>0, <1>1, <1>2, <1>f, Facts
    DEF BeforeClash, CbFibersOK, CbFiberOK, OnFiber
  <2> QED
    BY <1>0, <2>1 DEF BeforeClash, CbFibersOK
<1>7. FibersOK' /\ \A g \in Fibers : SamePermit(g)
  <2>1. FiberOK(f)' /\ SamePermit(f)
    BY <1>0, <1>1, <1>2, <1>3, <1>4 DEF FiberOK, OnePlace, HasWakeup, Entered, SamePermit, Holds
  <2>2. ASSUME NEW g \in Fibers \ {f} PROVE FiberOK(g)' /\ SamePermit(g)
    <3>1. StatementOf(g)' = StatementOf(g)
      BY <1>0, <1>5, SameStatements DEF BeforeClash
    <3>2. FiberOK(g) /\ Same(g)
      BY <1>0, <1>2, <1>3, <1>4, <3>1 DEF Same, BeforeClash, FibersOK
    <3> QED
      BY <3>2, SameFiber
  <2> QED
    BY <2>1, <2>2 DEF FibersOK
<1>8. TasksOK'
  BY <1>0, <1>1, <1>2, <1>3, <1>f, SameTasks DEF Entered
<1> QED
  BY <1>0, <1>3, <1>5, <1>6, <1>7, <1>8 DEF BeforeClash, Quiet

(* A sleeping fiber is scheduled.                                          *)
LEMMA WakeStep ==
  ASSUME TypeInv, BeforeClash, NEW f \in Fibers, WakeSleeper(f)
  PROVE  BeforeClash' /\ Quiet
<1>0. /\ UNCHANGED <<pc, ft, cb_fiber, cur, at, state, ctx, m_cb, m_list, m_num,
                     submitted>>
      /\ f \in sleeping /\ sleeping' = sleeping \ {f}
      /\ Schedule(FiberEntry(f, AnyThread))
  BY DEF WakeSleeper, semVars, historyVars
<1>1. FiberOK(f) /\ ~Queued(f) /\ ~Taken(f) /\ ~Listed(f)
  BY <1>0 DEF BeforeClash, FibersOK, FiberOK, OnePlace
<1>2. /\ QueueOK'
      /\ \A g : Queued(g)' <=> Queued(g) \/ g = f
      /\ \A c \in Tasks : CbQueued(c)' <=> CbQueued(c)
  <2>1. /\ FiberEntry(f, AnyThread) \in Entry
        /\ FiberEntry(f, AnyThread).fiber = f
        /\ FiberEntry(f, AnyThread).cb = NoTask
        /\ WellFormed(FiberEntry(f, AnyThread))
    BY EntryTypes, Facts DEF FiberEntry, WellFormed
  <2> QED
    BY <1>0, <1>1, <2>1, Facts, ScheduleQueue DEF BeforeClash
<1>3. /\ HeldOK' /\ StacksOK' /\ CbFibersOK' /\ ListOK' /\ NoIdlePermit'
      /\ \A g : Listed(g)' <=> Listed(g)
  BY <1>0, Frame, SameList
<1>4. \A g : /\ Taken(g)' <=> Taken(g)
             /\ OneTaker(g)' <=> OneTaker(g)
  BY <1>0, SameTaken
<1>5. \A g \in Fibers : StatementOf(g)' = StatementOf(g)
  BY <1>0, <1>3, SameStatements DEF BeforeClash
<1>6. FibersOK' /\ \A g \in Fibers : SamePermit(g)
  <2>1. FiberOK(f)' /\ SamePermit(f)
    <3>1. OnePlace(f)' /\ HasWakeup(f)' /\ HasWakeup(f)
      BY <1>0, <1>1, <1>2, <1>3, <1>4 DEF FiberOK, OnePlace, HasWakeup
    <3> QED
      BY <1>0, <1>1, <1>2, <1>3, <1>4, <1>5, <3>1 DEF FiberOK, Entered, SamePermit, Holds
  <2>2. ASSUME NEW g \in Fibers \ {f} PROVE FiberOK(g)' /\ SamePermit(g)
    <3>1. FiberOK(g) /\ Same(g)
      BY <1>0, <1>2, <1>3, <1>4, <1>5 DEF Same, BeforeClash, FibersOK
    <3> QED
      BY <3>1, SameFiber
  <2> QED
    BY <2>1, <2>2 DEF FibersOK
<1>7. TasksOK'
  BY <1>0, <1>2, SameTasks DEF Entered
<1> QED
  BY <1>0, <1>2, <1>3, <1>6, <1>7 DEF BeforeClash, Quiet

(* A task is given to schedule().                                          *)
LEMMA SubmitStep ==
  ASSUME TypeInv, BeforeClash, NEW c \in Tasks, Submit(c)
  PROVE  BeforeClash' /\ Quiet
<1>0. /\ UNCHANGED <<pc, ft, cb_fiber, cur, at, state, ctx, m_cb, m_list, m_num,
                     sleeping>>
      /\ c \notin submitted /\ submitted' = submitted \cup {c}
      /\ Schedule(CallbackEntry(c, AnyThread))
  BY DEF Submit, ScheduleCallback, semVars
<1>1. ~CbQueued(c) /\ ~CbTaken(c) /\ \A f \in Fibers : ~Runs(f, c)
  BY <1>0 DEF BeforeClash, TasksOK, TaskOK
<1>2. /\ QueueOK'
      /\ \A g \in Fibers : Queued(g)' <=> Queued(g)
      /\ \A d : CbQueued(d)' <=> CbQueued(d) \/ d = c
  <2>1. /\ CallbackEntry(c, AnyThread) \in Entry
        /\ CallbackEntry(c, AnyThread).fiber = NoFiber
        /\ CallbackEntry(c, AnyThread).cb = c
        /\ WellFormed(CallbackEntry(c, AnyThread))
    BY EntryTypes, Facts DEF CallbackEntry, WellFormed
  <2> QED
    BY <1>0, <1>1, <2>1, Facts, ScheduleQueue DEF BeforeClash
<1>3. /\ HeldOK' /\ StacksOK' /\ CbFibersOK' /\ ListOK' /\ NoIdlePermit'
      /\ \A g : Listed(g)' <=> Listed(g)
  BY <1>0, Frame, SameList
<1>4. /\ \A g : /\ Taken(g)' <=> Taken(g)
                /\ OneTaker(g)' <=> OneTaker(g)
      /\ \A d : CbTaken(d)' <=> CbTaken(d)
  BY <1>0, SameTaken
<1>5. FibersOK' /\ \A g \in Fibers : SamePermit(g)
  <2>1. ASSUME NEW g \in Fibers PROVE FiberOK(g)' /\ SamePermit(g)
    <3>1. StatementOf(g)' = StatementOf(g)
      BY <1>0, <1>3, SameStatements DEF BeforeClash
    <3>2. FiberOK(g) /\ Same(g)
      BY <1>0, <1>2, <1>3, <1>4, <3>1 DEF Same, BeforeClash, FibersOK
    <3> QED
      BY <3>2, SameFiber
  <2> QED
    BY <2>1 DEF FibersOK
<1>6. TasksOK'
  <2>1. ASSUME NEW d \in Tasks PROVE TaskOK(d)'
    <3>1. TaskOK(d) /\ \A f : Runs(f, d)' <=> Runs(f, d)
      BY <1>0 DEF BeforeClash, TasksOK, Runs, Entered
    <3> QED
      BY <1>0, <1>1, <1>2, <1>4, <3>1 DEF TaskOK
  <2> QED
    BY <2>1 DEF TasksOK
<1> QED
  BY <1>0, <1>2, <1>3, <1>5, <1>6 DEF BeforeClash, Quiet

(* The scan: the entry moves from the list to the thread.                  *)
LEMMA ScanTakeStep ==
  ASSUME TypeInv, BeforeClash, NEW t \in Threads, ThreadLoop(t), ScanTake(t)
  PROVE  BeforeClash' /\ Quiet
<1>i. PICK i \in DOMAIN m_fibers :
        /\ Eligible(t, m_fibers[i])
        /\ ft' = [ft EXCEPT ![t] = m_fibers[i]]
        /\ Erase(i)
  BY DEF ScanTake
<1>e. PICK e : e = m_fibers[i]
  OBVIOUS
<1>0. /\ UNCHANGED <<cb_fiber, cur, at, state, ctx, m_cb, m_list, m_num, sleeping,
                     submitted>>
      /\ pc[t] = "scan" /\ pc' = [pc EXCEPT ![t] = "take"]
  BY DEF ScanTake, ThreadLoop, semVars, historyVars
<1>1. /\ e \in Entry /\ WellFormed(e) /\ QueueOK'
      /\ \A g \in Fibers : /\ Queued(g)' <=> Queued(g) /\ g # e.fiber
                           /\ g = e.fiber => Queued(g)
      /\ \A c \in Tasks : /\ CbQueued(c)' <=> CbQueued(c) /\ c # e.cb
                          /\ c = e.cb => CbQueued(c)
  BY <1>i, <1>e, Facts, EraseQueue DEF BeforeClash
<1>2. /\ pc'[t] = "take" /\ ft'[t] = e
      /\ e.fiber \in Fibers => state[e.fiber] # "EXEC"
      /\ \A u \in Threads \ {t} : pc'[u] = pc[u] /\ ft'[u] = ft[u]
  BY <1>0, <1>i, <1>e, Facts DEF Eligible
<1>3. HeldOK'
  BY <1>1, <1>2 DEF BeforeClash, HeldOK, Holding
<1>4. /\ StacksOK' /\ CbFibersOK' /\ ListOK' /\ NoIdlePermit'
      /\ \A g : Listed(g)' <=> Listed(g)
  BY <1>0, <1>2, Facts, Frame, SameList
  DEF BeforeClash, StacksOK, StackOK, CbFibersOK, CbFiberOK, OnFiber
<1>5. \A g \in Fibers : StatementOf(g)' = StatementOf(g)
  BY <1>0, <1>4, SameStatements DEF BeforeClash
<1>6. \A g \in Fibers : Taken(g)' <=> Taken(g) \/ g = e.fiber
  BY <1>0, <1>2 DEF Taken
<1>7. FibersOK' /\ \A g \in Fibers : SamePermit(g)
  <2>1. ASSUME NEW g \in Fibers, g = e.fiber PROVE FiberOK(g)' /\ SamePermit(g)
    <3>1. FiberOK(g) /\ Queued(g) /\ ~Taken(g)
      BY <1>1, <2>1 DEF BeforeClash, FibersOK, FiberOK, OnePlace
    <3>2. state[g] = "HOLD"
      BY <1>2, <2>1, <3>1 DEF FiberOK, HasWakeup, Entered
    <3>3. OneTaker(g)'
      BY <1>2, <3>1 DEF OneTaker, Taken
    <3>4. OnePlace(g)'
      BY <1>0, <1>1, <1>4, <1>6, <2>1, <3>1, <3>3 DEF FiberOK, OnePlace
    <3> QED
      BY <1>0, <1>1, <1>4, <1>5, <1>6, <2>1, <3>1, <3>2, <3>4
      DEF FiberOK, HasWakeup, Entered, SamePermit, Holds
  <2>2. ASSUME NEW g \in Fibers, g # e.fiber PROVE FiberOK(g)' /\ SamePermit(g)
    <3>1. OneTaker(g) => OneTaker(g)'
      BY <1>0, <1>2, <2>2 DEF OneTaker
    <3>2. FiberOK(g) /\ Same(g)
      BY <1>0, <1>1, <1>4, <1>5, <1>6, <2>2, <3>1 DEF Same, BeforeClash, FibersOK
    <3> QED
      BY <3>2, SameFiber
  <2> QED
    BY <2>1, <2>2 DEF FibersOK
<1>8. TasksOK'
  <2>1. \A c \in Tasks : CbTaken(c)' <=> CbTaken(c) \/ c = e.cb
    BY <1>0, <1>2 DEF CbTaken
  <2>2. ASSUME NEW c \in Tasks PROVE TaskOK(c)'
    <3>1. TaskOK(c) /\ \A f : Runs(f, c)' <=> Runs(f, c)
      BY <1>0 DEF BeforeClash, TasksOK, Runs, Entered
    <3>2. CASE c = e.cb
      BY <1>0, <1>1, <1>2, <2>1, <3>1, <3>2 DEF TaskOK, CbTaken
    <3>3. CASE c # e.cb
      BY <1>0, <1>1, <1>2, <2>1, <3>1, <3>3 DEF TaskOK
    <3> QED
      BY <3>2, <3>3
  <2> QED
    BY <2>2 DEF TasksOK
<1> QED
  BY <1>0, <1>1, <1>3, <1>4, <1>7, <1>8 DEF BeforeClash, Quiet

(* A step of a thread outside its tasks: no fiber changes, but for the     *)
(* stack the thread leaves.                                                *)
LEMMA LoopFrame ==
  ASSUME TypeInv, BeforeClash, NEW t \in Threads, pc[t] # "take", pc'[t] # "take",
         \A u \in Threads \ {t} : pc'[u] = pc[u] /\ ft'[u] = ft[u],
         UNCHANGED <<m_fibers, m_list, m_num, sleeping, submitted, state, m_cb>>,
         HeldOK', StacksOK', CbFibersOK',
         \A g \in Fibers : Entered(g) => StatementOf(g)' = StatementOf(g)
  PROVE  BeforeClash' /\ Quiet
<1>1. /\ QueueOK' /\ (\A g : Queued(g)' <=> Queued(g))
      /\ \A c : CbQueued(c)' <=> CbQueued(c)
      /\ ListOK' /\ (\A g : Listed(g)' <=> Listed(g))
      /\ NoIdlePermit'
  BY SameQueue, SameList, Frame DEF BeforeClash
<1>2. \A g : /\ Taken(g)' <=> Taken(g)
             /\ OneTaker(g)' <=> OneTaker(g)
  BY SameTaken
<1>3. ASSUME NEW g \in Fibers PROVE FiberOK(g)' /\ SamePermit(g)
  <2>1. FiberOK(g) /\ Same(g)
    BY <1>1, <1>2 DEF Same, BeforeClash, FibersOK, Entered
  <2> QED
    BY <2>1, SameFiber
<1>4. TasksOK'
  BY <1>1, SameTasks DEF Entered
<1> QED
  BY <1>1, <1>3, <1>4 DEF BeforeClash, FibersOK, Quiet

(* A round of the idle fiber, a scan of an empty list, and the return of   *)
(* swapIn.                                                                 *)
LEMMA IdleStep ==
  ASSUME TypeInv, BeforeClash, NEW t \in Threads, ThreadLoop(t),
         ScanNothing(t) \/ Idle(t) \/ Back(t)
  PROVE  BeforeClash' /\ Quiet
<1>0. /\ UNCHANGED <<m_fibers, cur, at, state, ctx, m_cb, m_list, m_num, sleeping,
                     submitted>>
      /\ pc[t] \in {"scan", "idle", "back"}
      /\ pc'[t] \in {"scan", "idle", "done"}
      /\ pc' = [pc EXCEPT ![t] = pc'[t]]
      /\ ft' = [ft EXCEPT ![t] = ft'[t]]
      /\ cb_fiber' = [cb_fiber EXCEPT ![t] = cb_fiber'[t]]
      /\ cb_fiber'[t] # NoFiber =>
           /\ cb_fiber'[t] = cb_fiber[t]
           /\ pc[t] = "back" => ft[t].cb = NoTask \/ state[cb_fiber[t]] = "TERM"
  BY Facts DEF ScanNothing, Idle, Back, Continue, ThreadLoop, semVars, historyVars
<1>1. \A u \in Threads \ {t} : /\ pc'[u] = pc[u] /\ ft'[u] = ft[u]
                               /\ cb_fiber'[u] = cb_fiber[u]
  BY <1>0, Facts
<1>2. HeldOK' /\ StacksOK'
  BY <1>0, <1>1 DEF BeforeClash, HeldOK, Holding, StacksOK, StackOK, OnFiber
<1>3. CbFibersOK'
  BY <1>0, <1>1 DEF BeforeClash, CbFibersOK, CbFiberOK, OnFiber
<1>4. \A g \in Fibers : StatementOf(g)' = StatementOf(g)
  BY <1>0, <1>2, SameStatements DEF BeforeClash
<1> QED
  BY <1>0, <1>1, <1>2, <1>3, <1>4, LoopFrame

(* The thread leaves the stack of its fiber, which yielded - its context   *)
(* is saved now - or ended.                                                *)
LEMMA LeaveStep ==
  ASSUME TypeInv, BeforeClash, NEW t \in Threads, ThreadLoop(t),
         SwapOut(t) \/ LeaveStack(t)
  PROVE  BeforeClash' /\ Quiet
<1>0. /\ UNCHANGED <<m_fibers, ft, cb_fiber, state, m_cb, m_list, m_num, sleeping,
                     submitted>>
      /\ pc[t] \in {"swapOut", "exit"}
      /\ pc' = [pc EXCEPT ![t] = "back"]
      /\ cur' = [cur EXCEPT ![t] = NoFiber]
      /\ at' = [at EXCEPT ![t] = "begin"]
      /\ pc[t] = "swapOut" => ctx' = [ctx EXCEPT ![cur[t]] = at[t]]
      /\ pc[t] = "exit" => ctx' = ctx
  BY DEF SwapOut, LeaveStack, Save, ThreadLoop, semVars, historyVars
<1>f. PICK f \in Fibers :
        /\ cur[t] = f
        /\ pc[t] = "swapOut" => state[f] = "HOLD"
        /\ pc[t] = "exit" => state[f] = "TERM"
  BY <1>0, Facts DEF BeforeClash, StacksOK, StackOK, OnFiber
<1>1. /\ pc'[t] = "back" /\ cur'[t] = NoFiber
      /\ \A u \in Threads \ {t} : /\ pc'[u] = pc[u] /\ cur'[u] = cur[u]
                                  /\ at'[u] = at[u] /\ cur[u] # f
  BY <1>0, <1>f, Facts DEF BeforeClash, StacksOK
<1>2. HeldOK' /\ StacksOK' /\ CbFibersOK'
  BY <1>0, <1>1, Facts
  DEF BeforeClash, HeldOK, Holding, StacksOK, StackOK, CbFibersOK, CbFiberOK,
      OnFiber
<1>3. ASSUME NEW g \in Fibers, Entered(g)
      PROVE  StatementOf(g)' = StatementOf(g)
  <2>1. CASE g = f
    <3>1. pc[t] = "swapOut" /\ StatementOf(g) = at[t]
      BY <1>0, <1>3, <1>f, <2>1, StatementFacts DEF Entered, BeforeClash
    <3>2. \A u \in Threads : cur'[u] # g
      BY <1>1, <2>1, Facts
    <3>3. StatementOf(g)' = ctx'[g]
      BY <1>2, <3>2, Facts, NextStatement
    <3>4. ctx'[g] = at[t]
      BY <1>0, <1>f, <2>1, <3>1, Facts
    <3> QED
      BY <3>1, <3>3, <3>4
  <2>2. CASE g # f
    <3>1. ctx'[g] = ctx[g] /\ \A u \in Threads : cur'[u] = g <=> cur[u] = g
      BY <1>0, <1>1, <1>f, <2>2, Facts
    <3>2. \A u \in Threads : cur[u] = g => at'[u] = at[u]
      BY <1>1, <1>f, <2>2
    <3> QED
      BY <1>2, <3>1, <3>2, SameStatements DEF BeforeClash
  <2> QED
    BY <2>1, <2>2
<1> QED
  BY <1>0, <1>1, <1>2, <1>3, LoopFrame

(* A fiber is resumed where it yielded.                                    *)
LEMMA ResumeStep ==
  ASSUME TypeInv, BeforeClash, ~clash', NEW t \in Threads,
         ThreadLoop(t), ResumeFiber(t)
  PROVE  BeforeClash' /\ Quiet
<1>f. PICK f \in Fibers :
        /\ ft[t].fiber = f /\ pc[t] = "take" /\ ft[t].cb = NoTask
        /\ state[f] = "HOLD" /\ FiberOK(f) /\ m_cb[f] \in Tasks
  BY TakenFacts DEF ResumeFiber, FiberOK, Entered
<1>0. /\ UNCHANGED <<m_fibers, ft, cb_fiber, ctx, m_cb, m_list, m_num, sleeping,
                     submitted>>
      /\ SwitchTo(t, f, ctx[f])
  BY <1>f DEF ResumeFiber, Dropped, ThreadLoop, semVars, historyVars
<1>s. /\ pc' = [pc EXCEPT ![t] = "fiber"]
      /\ cur' = [cur EXCEPT ![t] = f]
      /\ state' = [state EXCEPT ![f] = "EXEC"]
      /\ at' = [at EXCEPT ![t] = ctx[f]]
      /\ \A u \in Threads \ {t} : cur[u] # f
  BY <1>0 DEF SwitchTo, BusyElsewhere
<1>1. /\ pc'[t] = "fiber" /\ cur'[t] = f /\ at'[t] = ctx[f] /\ state'[f] = "EXEC"
      /\ \A g \in Fibers \ {f} : state'[g] = state[g]
      /\ \A u \in Threads \ {t} : /\ pc'[u] = pc[u] /\ cur'[u] = cur[u]
                                  /\ at'[u] = at[u]
      /\ cur[t] = NoFiber /\ f # NoFiber
  BY <1>f, <1>s, Facts DEF BeforeClash, StacksOK, StackOK, OnFiber
<1>2. /\ QueueOK' /\ (\A g : Queued(g)' <=> Queued(g))
      /\ \A c : CbQueued(c)' <=> CbQueued(c)
      /\ ListOK' /\ (\A g : Listed(g)' <=> Listed(g))
      /\ NoIdlePermit'
  BY <1>0, SameQueue, SameList, Frame DEF BeforeClash
<1>3. HeldOK'
  BY <1>0, <1>1, <1>f DEF BeforeClash, HeldOK, Holding
<1>4. StacksOK'
  BY <1>1, <1>s, Facts DEF BeforeClash, StacksOK, StackOK, OnFiber
<1>5. CbFibersOK'
  <2>1. ASSUME NEW u \in Threads, cb_fiber[u] # NoFiber PROVE CbFiberOK(u)'
    <3>1. cb_fiber[u] \in Fibers /\ CbFiberOK(u)
      BY <2>1, Facts DEF BeforeClash, CbFibersOK
    <3>2. CASE u = t
      <4>1. state[cb_fiber[t]] = "TERM"
        BY <1>f, <2>1, <3>1, <3>2 DEF CbFiberOK, OnFiber
      <4>2. cb_fiber[t] # f /\ state'[cb_fiber[t]] = "TERM"
        BY <1>1, <1>f, <3>1, <3>2, <4>1
      <4> QED
        BY <1>0, <3>2, <4>2 DEF CbFiberOK
    <3>3. CASE u # t /\ cb_fiber[u] = f
      BY <1>0, <1>f, <1>1, <2>1, <3>1, <3>3 DEF CbFiberOK
    <3>4. CASE u # t /\ cb_fiber[u] # f
      BY <1>0, <1>1, <2>1, <3>1, <3>4 DEF CbFiberOK
    <3> QED
      BY <3>2, <3>3, <3>4
  <2>2. \A u \in Threads : CbFiberOK(u)'
    BY <1>0, <2>1 DEF CbFiberOK
  <2> QED
    BY <1>0, <2>2 DEF BeforeClash, CbFibersOK
<1>6. /\ Taken(f) /\ ~Taken(f)' /\ OneTaker(f)'
      /\ \A g \in Fibers \ {f} : /\ Taken(g)' <=> Taken(g)
                                 /\ OneTaker(g) => OneTaker(g)'
  <2>1. Taken(f) /\ OneTaker(f)
    BY <1>f DEF Taken, FiberOK, OnePlace
  <2>2. ~Taken(f)' /\ OneTaker(f)'
    BY <1>0, <1>1, <1>f, <2>1 DEF Taken, OneTaker
  <2>3. \A g \in Fibers \ {f} : /\ Taken(g)' <=> Taken(g)
                                /\ OneTaker(g) => OneTaker(g)'
    BY <1>0, <1>1, <1>f DEF Taken, OneTaker
  <2> QED
    BY <2>1, <2>2, <2>3
<1>7. StatementOf(f)' = StatementOf(f)
  <2>1. StatementOf(f) = ctx[f]
    BY <1>1, <1>s, StatementFacts DEF BeforeClash
  <2>2. StatementOf(f)' = at'[t]
    BY <1>1, <1>4, Facts, NextStatement
  <2> QED
    BY <1>1, <2>1, <2>2
<1>8. FibersOK' /\ \A g \in Fibers : SamePermit(g)
  <2>1. FiberOK(f)' /\ SamePermit(f)
    <3>1. OnePlace(f)' /\ ~HasWakeup(f)'
      BY <1>0, <1>2, <1>6, <1>f DEF FiberOK, OnePlace, HasWakeup
    <3> QED
      BY <1>0, <1>1, <1>2, <1>6, <1>7, <1>f, <3>1 DEF FiberOK, HasWakeup, Entered, SamePermit, Holds
  <2>2. ASSUME NEW g \in Fibers \ {f} PROVE FiberOK(g)' /\ SamePermit(g)
    <3>1. \A u \in Threads : cur'[u] = g <=> cur[u] = g
      BY <1>1, Facts
    <3>2. StatementOf(g)' = StatementOf(g)
      BY <1>0, <1>1, <1>4, <3>1, Facts, SameStatements DEF BeforeClash
    <3>3. FiberOK(g) /\ Same(g)
      BY <1>0, <1>1, <1>2, <1>6, <3>2 DEF Same, BeforeClash, FibersOK
    <3> QED
      BY <3>3, SameFiber
  <2> QED
    BY <2>1, <2>2 DEF FibersOK
<1>9. TasksOK'
  BY <1>0, <1>1, <1>2, <1>f, SameTasks DEF Entered
<1> QED
  BY <1>0, <1>2, <1>3, <1>4, <1>5, <1>8, <1>9 DEF BeforeClash, Quiet

(* A callback is entered, on cb_fiber or on a new fiber.                   *)
LEMMA CallbackStep ==
  ASSUME TypeInv, BeforeClash, ~clash', NEW t \in Threads,
         ThreadLoop(t), StartCallback(t)
  PROVE  BeforeClash' /\ Quiet
<1>c. PICK c \in Tasks : ft[t].cb = c /\ ft[t].fiber = NoFiber /\ pc[t] = "take"
  BY Facts DEF StartCallback, Entry, BeforeClash, HeldOK, Holding, WellFormed
<1>f. PICK f \in Fibers :
        /\ IF cb_fiber[t] # NoFiber THEN f = cb_fiber[t] ELSE state[f] = "FREE"
        /\ cb_fiber' = [cb_fiber EXCEPT ![t] = f]
        /\ Reset(f, c)
        /\ SwitchTo(t, f, "begin")
  BY <1>c DEF StartCallback
<1>0. UNCHANGED <<m_fibers, ft, m_list, m_num, sleeping, submitted>>
  BY DEF StartCallback, ThreadLoop, semVars, historyVars
<1>s. /\ pc' = [pc EXCEPT ![t] = "fiber"]
      /\ cur' = [cur EXCEPT ![t] = f]
      /\ state' = [state EXCEPT ![f] = "EXEC"]
      /\ at' = [at EXCEPT ![t] = "begin"]
      /\ ctx' = [ctx EXCEPT ![f] = "begin"]
      /\ m_cb' = [m_cb EXCEPT ![f] = c]
      /\ \A u \in Threads \ {t} : cur[u] # f
  BY <1>f DEF SwitchTo, BusyElsewhere, Reset
<1>1. /\ pc'[t] = "fiber" /\ cur'[t] = f /\ at'[t] = "begin" /\ state'[f] = "EXEC"
      /\ m_cb'[f] = c /\ cb_fiber'[t] = f
      /\ \A g \in Fibers \ {f} : /\ state'[g] = state[g] /\ m_cb'[g] = m_cb[g]
                                 /\ ctx'[g] = ctx[g]
      /\ \A u \in Threads \ {t} : /\ pc'[u] = pc[u] /\ cur'[u] = cur[u]
                                  /\ at'[u] = at[u] /\ cb_fiber'[u] = cb_fiber[u]
      /\ cur[t] = NoFiber /\ f # NoFiber
  BY <1>c, <1>f, <1>s, Facts, ZenonT(60) DEF BeforeClash, StacksOK, StackOK, OnFiber
<1>2. state[f] \in {"FREE", "TERM"}
  BY <1>c, <1>f DEF BeforeClash, CbFibersOK, CbFiberOK, OnFiber
<1>3. \A u \in Threads \ {t} : cb_fiber[u] # f
  <2>1. CASE cb_fiber[t] # NoFiber
    BY <1>f, <1>1, <2>1 DEF BeforeClash, CbFibersOK
  <2>2. CASE cb_fiber[t] = NoFiber
    BY <1>f, <1>1, <2>2 DEF BeforeClash, CbFibersOK, CbFiberOK
  <2> QED
    BY <2>1, <2>2
<1>4. FiberOK(f) /\ ~HasWakeup(f)
  BY <1>2 DEF BeforeClash, FibersOK, FiberOK, Entered
<1>5. /\ QueueOK' /\ (\A g : Queued(g)' <=> Queued(g))
      /\ (\A d : CbQueued(d)' <=> CbQueued(d))
      /\ ListOK' /\ (\A g : Listed(g)' <=> Listed(g))
      /\ NoIdlePermit'
  BY <1>0, SameQueue, SameList, Frame DEF BeforeClash
<1>6. HeldOK'
  BY <1>0, <1>1, <1>c DEF BeforeClash, HeldOK, Holding
<1>7. StacksOK'
  BY <1>1, <1>s, Facts DEF BeforeClash, StacksOK, StackOK, OnFiber
<1>8. CbFibersOK'
  <2>1. ASSUME NEW u \in Threads PROVE CbFiberOK(u)'
    <3>1. CASE u = t
      BY <1>0, <1>1, <1>c, <3>1, Facts DEF CbFiberOK, OnFiber
    <3>2. CASE u # t
      <4>1. cb_fiber[u] # NoFiber => state'[cb_fiber[u]] = state[cb_fiber[u]]
        BY <1>1, <1>3, <3>2, Facts
      <4> QED
        BY <1>0, <1>1, <3>2, <4>1 DEF BeforeClash, CbFibersOK, CbFiberOK
    <3> QED
      BY <3>1, <3>2
  <2>2. \A u, v \in Threads :
          (cb_fiber'[u] = cb_fiber'[v] /\ cb_fiber'[u] # NoFiber) => u = v
    BY <1>1, <1>3 DEF BeforeClash, CbFibersOK
  <2> QED
    BY <2>1, <2>2 DEF CbFibersOK
<1>9. \A g \in Fibers : /\ Taken(g)' <=> Taken(g)
                        /\ OneTaker(g) => OneTaker(g)'
  BY <1>0, <1>1, <1>c, Facts DEF Taken, OneTaker
<1>10. FibersOK' /\ \A g \in Fibers : SamePermit(g)
  <2>1. FiberOK(f)' /\ SamePermit(f)
    <3>1. StatementOf(f)' = "begin"
      BY <1>1, <1>7, Facts, NextStatement
    <3>2. OnePlace(f)' /\ ~HasWakeup(f)'
      BY <1>0, <1>4, <1>5, <1>9 DEF FiberOK, OnePlace, HasWakeup
    <3> QED
      BY <1>1, <1>2, <1>4, <3>1, <3>2 DEF FiberOK, HasWakeup, Entered, SamePermit, Holds
  <2>2. ASSUME NEW g \in Fibers \ {f} PROVE FiberOK(g)' /\ SamePermit(g)
    <3>1. \A u \in Threads : cur'[u] = g <=> cur[u] = g
      BY <1>1, Facts
    <3>2. StatementOf(g)' = StatementOf(g)
      BY <1>1, <1>7, <3>1, Facts, SameStatements DEF BeforeClash
    <3>3. FiberOK(g) /\ Same(g)
      BY <1>0, <1>1, <1>5, <1>9, <3>2 DEF Same, BeforeClash, FibersOK
    <3> QED
      BY <3>3, SameFiber
  <2> QED
    BY <2>1, <2>2 DEF FibersOK
<1>11. TasksOK'
  <2>1. ASSUME NEW d \in Tasks, d # c PROVE TaskOK(d)'
    <3>1. TaskOK(d) /\ \A g \in Fibers : Runs(g, d)' => Runs(g, d)
      BY <1>1, <2>1 DEF BeforeClash, TasksOK, Runs, Entered
    <3>2. CbTaken(d)' => CbTaken(d)
      BY <1>0, <1>1 DEF CbTaken
    <3>3. \A u, v \in Threads :
            (pc'[u] = "take" /\ ft'[u].cb = d /\ pc'[v] = "take" /\ ft'[v].cb = d)
              => u = v
      BY <1>0, <1>1, <3>1 DEF TaskOK
    <3> QED
      BY <1>0, <1>5, <3>1, <3>2, <3>3 DEF TaskOK
  <2>2. TaskOK(c)'
    <3>1. TaskOK(c) /\ CbTaken(c) /\ ~CbQueued(c) /\ c \in submitted
          /\ \A g \in Fibers : ~Runs(g, c)
      BY <1>c DEF BeforeClash, TasksOK, TaskOK, CbTaken
    <3>2. \A g \in Fibers : Runs(g, c)' => g = f
      BY <1>1, <3>1 DEF Runs, Entered
    <3>3. ~CbTaken(c)'
      BY <1>0, <1>1, <1>c, <3>1 DEF TaskOK, CbTaken
    <3>4. ~CbQueued(c)'
      BY <1>5, <3>1
    <3> QED
      BY <1>0, <3>1, <3>2, <3>3, <3>4 DEF TaskOK, CbTaken
  <2> QED
    BY <2>1, <2>2 DEF TasksOK
<1> QED
  BY <1>0, <1>5, <1>6, <1>7, <1>8, <1>10, <1>11 DEF BeforeClash, Quiet

-----------------------------------------------------------------------------
(* What a step does to the permits and to the list of those who wait.      *)

(* The fiber takes a free permit ...                                       *)
Takes(f) ==
  /\ f \notin Holders /\ Holders' = Holders \cup {f}
  /\ m_num > 0 /\ m_num' = m_num - 1
  /\ UNCHANGED <<m_list, produced, consumed>>

(* ... or waits for one, as there is none ...                              *)
Queues(f) ==
  /\ f \notin Holders /\ Holders' = Holders
  /\ m_num = 0
  /\ m_list' = Append(m_list, f)
  /\ UNCHANGED <<m_num, produced, consumed>>

(* ... or uses up the one it has ...                                       *)
Uses(f) ==
  /\ f \in Holders /\ Holders' = Holders \ {f}
  /\ consumed' = consumed + 1
  /\ UNCHANGED <<m_num, m_list, produced>>

(* ... or gives it, or a new one, to the first that waits, if one does.    *)
Hands(kept) ==
  IF m_list = <<>>
  THEN /\ Holders' = kept
       /\ m_num' = m_num + 1
       /\ UNCHANGED m_list
  ELSE /\ Head(m_list) \in Fibers \ Holders
       /\ Holders' = kept \cup {Head(m_list)}
       /\ m_list' = Tail(m_list)
       /\ UNCHANGED m_num

Gives(f) ==
  /\ f \in Holders /\ Hands(Holders \ {f})
  /\ UNCHANGED <<produced, consumed>>

Makes(f) ==
  /\ f \notin Holders /\ Hands(Holders)
  /\ produced' = produced + 1
  /\ UNCHANGED consumed

Moves(f) ==
  /\ Entered(f) /\ ~Listed(f) /\ UNCHANGED m_cb
  /\ Takes(f) \/ Queues(f) \/ Uses(f) \/ Gives(f) \/ Makes(f)

Still == Quiet /\ UNCHANGED <<produced, consumed>>

(* Who holds a permit when a task that does not switch takes a step.       *)
LEMMA HoldsAfter ==
  ASSUME TypeInv, BeforeClash, NEW t \in Threads, pc[t] = "fiber",
         NEW f \in Fibers, cur[t] = f, NEW s \in Statements, Step(t, s)
  PROVE  /\ Entered(f) /\ UNCHANGED m_cb
         /\ f \in Holders <=> \/ at[t] \in {"sleep", "release"}
                              \/ at[t] \in {"yield", "work"} /\ ~Listed(f)
         /\ f \in Holders' <=> \/ s \in {"sleep", "release"}
                               \/ s \in {"yield", "work"} /\ ~Listed(f)'
         /\ \A g \in Fibers \ {f} :
              (Listed(g)' <=> Listed(g)) => (g \in Holders' <=> g \in Holders)
         /\ \A g \in Fibers \ {f} :
              Listed(g) /\ ~Listed(g)' => g \in Holders' /\ g \notin Holders
<1>1. /\ state[f] = "EXEC" /\ StatementOf(f) = at[t]
  BY ExecutingFacts
<1>2. /\ StatementOf(f)' = s /\ state'[f] = "EXEC"
      /\ \A g \in Fibers \ {f} : /\ StatementOf(g)' = StatementOf(g)
                                 /\ state'[g] = state[g]
  BY StepFrame
<1>3. f \in Holders <=> \/ at[t] \in {"sleep", "release"}
                        \/ at[t] \in {"yield", "work"} /\ ~Listed(f)
  BY <1>1 DEF Holders, Holds
<1>4. f \in Holders' <=> \/ s \in {"sleep", "release"}
                         \/ s \in {"yield", "work"} /\ ~Listed(f)'
  BY <1>2 DEF Holders, Holds
<1>5. ASSUME NEW g \in Fibers \ {f}, Listed(g)' <=> Listed(g)
      PROVE  g \in Holders' <=> g \in Holders
  BY <1>2, <1>5 DEF Holders, Holds
<1>6. ASSUME NEW g \in Fibers \ {f}, Listed(g), ~Listed(g)'
      PROVE  g \in Holders' /\ g \notin Holders
  <2>1. StatementOf(g) \in {"yield", "work"} /\ Entered(g)
    BY <1>6 DEF BeforeClash, FibersOK, FiberOK, HasWakeup
  <2> QED
    BY <1>2, <1>6, <2>1 DEF Holders, Holds, Entered
<1> QED
  BY <1>1, <1>3, <1>4, <1>5, <1>6 DEF Entered, Step

LEMMA WaitMoves ==
  ASSUME TypeInv, BeforeClash, NEW t \in Threads, Wait(t)
  PROVE  \E f \in Fibers : Moves(f)
<1>f. PICK f \in Fibers : cur[t] = f
  BY ExecutingFacts DEF Wait, Executing
<1>0. /\ pc[t] = "fiber" /\ at[t] = "begin" /\ ~Listed(f)
      /\ UNCHANGED <<produced, consumed>>
      /\ "work" \in Statements /\ "yield" \in Statements
  BY <1>f, ExecutingFacts DEF Wait, Executing, historyVars, Statements, HasWakeup
<1>1. CASE m_num > 0
  <2>1. Step(t, "work") /\ UNCHANGED m_list /\ m_num' = m_num - 1
    BY <1>1 DEF Wait
  <2>2. \A g : Listed(g)' <=> Listed(g)
    BY <2>1, SameList
  <2>3. /\ f \notin Holders /\ f \in Holders'
        /\ \A g \in Fibers \ {f} : g \in Holders' <=> g \in Holders
        /\ Entered(f) /\ UNCHANGED m_cb
    BY <1>0, <1>f, <2>1, <2>2, HoldsAfter
  <2>4. Holders' = Holders \cup {f}
    BY <2>3 DEF Holders
  <2> QED
    BY <1>0, <1>1, <2>1, <2>3, <2>4 DEF Moves, Takes
<1>2. CASE ~(m_num > 0)
  <2>1. Step(t, "yield") /\ m_list' = Append(m_list, f) /\ m_num' = m_num
    BY <1>f, <1>2 DEF Wait
  <2>2. \A g : Listed(g)' <=> Listed(g) \/ g = f
    BY <2>1, Facts, AppendList
  <2>3. /\ f \notin Holders /\ f \notin Holders'
        /\ \A g \in Fibers \ {f} : g \in Holders' <=> g \in Holders
        /\ Entered(f) /\ UNCHANGED m_cb
    BY <1>0, <1>f, <2>1, <2>2, HoldsAfter
  <2>4. Holders' = Holders
    BY <2>3 DEF Holders
  <2>5. m_num = 0
    BY <1>2, Facts
  <2> QED
    BY <1>0, <2>1, <2>3, <2>4, <2>5 DEF Moves, Queues
<1> QED
  BY <1>1, <1>2

LEMMA WorkMoves ==
  ASSUME TypeInv, BeforeClash, NEW t \in Threads,
         tryWait(t) \/ WorkDone(t) \/ Consume(t) \/ WorkSuspends(t)
  PROVE  Still \/ \E f \in Fibers : Moves(f)
<1>f. PICK f \in Fibers : cur[t] = f /\ pc[t] = "fiber"
  BY ExecutingFacts DEF tryWait, WorkDone, Consume, WorkSuspends, Executing
<1>0. UNCHANGED m_list /\ \A g : Listed(g)' <=> Listed(g)
  BY SameList DEF tryWait, WorkDone, Consume, WorkSuspends, semVars
<1>1. ~Listed(f) \/ at[t] \in {"yield", "sleep"}
  BY <1>f, ExecutingFacts DEF HasWakeup
<1>2. /\ "work" \in Statements /\ "leave" \in Statements
      /\ "release" \in Statements /\ "sleep" \in Statements
  BY DEF Statements
<1>3. CASE tryWait(t) /\ m_num > 0
  <2>1. /\ Step(t, "work") /\ m_num' = m_num - 1 /\ at[t] = "begin"
        /\ UNCHANGED <<produced, consumed>>
    BY <1>3 DEF tryWait, Executing, historyVars
  <2>2. /\ f \notin Holders /\ f \in Holders'
        /\ \A g \in Fibers \ {f} : g \in Holders' <=> g \in Holders
        /\ Entered(f) /\ UNCHANGED m_cb
    BY <1>f, <1>0, <1>1, <1>2, <2>1, HoldsAfter
  <2>3. Holders' = Holders \cup {f}
    BY <2>2 DEF Holders
  <2> QED
    BY <1>0, <1>1, <1>3, <2>1, <2>2, <2>3 DEF Moves, Takes
<1>4. CASE Consume(t)
  <2>1. /\ Step(t, "leave") /\ at[t] = "work" /\ consumed' = consumed + 1
        /\ UNCHANGED <<m_num, produced>>
    BY <1>4 DEF Consume, Executing, semVars
  <2>2. /\ f \in Holders /\ f \notin Holders'
        /\ \A g \in Fibers \ {f} : g \in Holders' <=> g \in Holders
        /\ Entered(f) /\ UNCHANGED m_cb
    BY <1>f, <1>0, <1>1, <1>2, <2>1, HoldsAfter
  <2>3. Holders' = Holders \ {f}
    BY <2>2 DEF Holders
  <2> QED
    BY <1>0, <1>1, <2>1, <2>2, <2>3 DEF Moves, Uses
<1>5. CASE (tryWait(t) /\ ~(m_num > 0)) \/ WorkDone(t) \/ WorkSuspends(t)
  <2>1. PICK s \in {"leave", "release", "sleep"} :
          /\ Step(t, s)
          /\ \/ s = "leave" /\ at[t] = "begin"
             \/ s \in {"release", "sleep"} /\ at[t] = "work"
    BY <1>5 DEF tryWait, WorkDone, WorkSuspends, Executing
  <2>2. UNCHANGED <<m_num, produced, consumed>>
    BY <1>5 DEF tryWait, WorkDone, WorkSuspends, historyVars, semVars
  <2>3. UNCHANGED m_cb /\ \A g \in Fibers : g \in Holders' <=> g \in Holders
    BY <1>f, <1>0, <1>1, <1>2, <2>1, HoldsAfter
  <2>4. \A g \in Fibers : Holds(g)' <=> Holds(g)
    BY <2>3 DEF Holders
  <2> QED
    BY <1>0, <2>2, <2>3, <2>4 DEF Still, Quiet, SamePermit
<1> QED
  BY <1>3, <1>4, <1>5

LEMMA NotifyMoves ==
  ASSUME TypeInv, BeforeClash, NEW t \in Threads, Notify(t)
  PROVE  \E f \in Fibers : Moves(f)
<1>f. PICK f \in Fibers : cur[t] = f /\ pc[t] = "fiber"
  BY ExecutingFacts DEF Notify, Executing
<1>0. /\ at[t] \in {"release", "begin"} /\ ~Listed(f)
      /\ Step(t, "leave") /\ Grant /\ "leave" \in Statements
      /\ produced' = IF at[t] = "begin" THEN produced + 1 ELSE produced
      /\ consumed' = consumed
  BY <1>f, ExecutingFacts DEF Notify, Executing, Statements, HasWakeup
<1>h. PICK kept : kept = Holders \ {f}
  OBVIOUS
<1>1. Hands(kept) /\ Entered(f) /\ UNCHANGED m_cb
  <2>1. CASE m_list = <<>>
    <3>1. UNCHANGED m_list /\ m_num' = m_num + 1
      BY <1>0, <2>1, GrantFacts
    <3>2. \A g : Listed(g)' <=> Listed(g)
      BY <3>1, SameList
    <3>3. /\ f \notin Holders' /\ Entered(f) /\ UNCHANGED m_cb
          /\ \A g \in Fibers \ {f} : g \in Holders' <=> g \in Holders
      BY <1>f, <1>0, <3>2, HoldsAfter
    <3>4. Holders' = kept
      BY <1>h, <3>3 DEF Holders
    <3> QED
      BY <2>1, <3>1, <3>3, <3>4 DEF Hands
  <2>2. CASE m_list # <<>>
    <3>h. PICK h : h = Head(m_list)
      OBVIOUS
    <3>1. m_list' = Tail(m_list) /\ m_num' = m_num /\ h \in Fibers /\ Listed(h)
      BY <1>0, <2>2, <3>h, GrantFacts
    <3>2. \A g : Listed(g)' <=> Listed(g) /\ g # h
      BY <2>2, <3>h, <3>1, Facts, TailList DEF BeforeClash
    <3>3. /\ f \notin Holders' /\ Entered(f) /\ UNCHANGED m_cb /\ h # f
          /\ \A g \in Fibers \ {f, h} : g \in Holders' <=> g \in Holders
          /\ h \in Holders' /\ h \notin Holders
      BY <1>f, <1>0, <3>1, <3>2, HoldsAfter
    <3>4. Holders' = kept \cup {h}
      BY <1>h, <3>3 DEF Holders
    <3> QED
      BY <2>2, <3>h, <3>1, <3>3, <3>4 DEF Hands
  <2> QED
    BY <2>1, <2>2
<1>2. f \in Holders <=> at[t] = "release"
  BY <1>f, <1>0, HoldsAfter
<1>3. f \notin Holders => kept = Holders
  BY <1>h
<1> QED
  BY <1>0, <1>h, <1>1, <1>2, <1>3 DEF Moves, Gives, Makes

-----------------------------------------------------------------------------
(* The invariant.                                                          *)

LEMMA InvariantInit == Init => SemInv
<1> SUFFICES ASSUME Init PROVE SemInv
  OBVIOUS
<1>1. TypeInv
  BY TypeInit
<1>2. /\ DOMAIN m_fibers = {} /\ DOMAIN m_list = {} /\ m_list = <<>>
      /\ \A t \in Threads : /\ pc[t] = "scan" /\ cur[t] = NoFiber
                            /\ cb_fiber[t] = NoFiber
      /\ \A f \in Fibers : state[f] = "FREE"
      /\ sleeping = {} /\ submitted = {}
  BY DEF Init, SchedulerInit
<1>3. QueueOK /\ ListOK /\ HeldOK /\ StacksOK /\ CbFibersOK /\ NoIdlePermit
  BY <1>2
  DEF QueueOK, ListOK, HeldOK, Holding, StacksOK, StackOK, OnFiber, CbFibersOK,
      CbFiberOK, NoIdlePermit
<1>4. FibersOK
  BY <1>2
  DEF FibersOK, FiberOK, OnePlace, OneTaker, HasWakeup, Listed, Queued, Taken,
      Entered
<1>5. TasksOK
  BY <1>2 DEF TasksOK, TaskOK, CbQueued, CbTaken, Runs, Entered
<1> QED
  BY <1>1, <1>3, <1>4, <1>5 DEF SemInv, BeforeClash

(* Before a clash every step keeps the invariant, and moves a permit as    *)
(* one of the five ways says, or none.                                     *)
LEMMA StepBeforeClash ==
  ASSUME TypeInv, BeforeClash, [Next]_vars, ~clash'
  PROVE  BeforeClash' /\ (Still \/ \E f \in Fibers : Moves(f))
<1>1. ASSUME NEW c \in Tasks, Submit(c) PROVE BeforeClash' /\ Still
  BY <1>1, SubmitStep DEF Submit, Still
<1>2. ASSUME NEW f \in Fibers, WakeSleeper(f) PROVE BeforeClash' /\ Still
  BY <1>2, WakeStep DEF WakeSleeper, Still, historyVars
<1>3. ASSUME NEW t \in Threads, ThreadLoop(t) PROVE BeforeClash' /\ Still
  <2>1. BeforeClash' /\ Quiet
    BY <1>3, ScanTakeStep, IdleStep, LeaveStep, ResumeStep, CallbackStep
    DEF ThreadLoop, Loop, Enter
  <2> QED
    BY <1>3, <2>1 DEF ThreadLoop, Still, historyVars
<1>4. ASSUME NEW t \in Threads, WaitYield(t) \/ SleepYield(t) \/ Finish(t)
      PROVE  BeforeClash' /\ Still
  <2>1. BeforeClash' /\ Quiet
    BY <1>4, YieldStep, FinishStep
  <2> QED
    BY <1>4, <2>1 DEF WaitYield, SleepYield, Finish, Still, historyVars
<1>5. ASSUME NEW t \in Threads, StepActions(t)
      PROVE  BeforeClash' /\ (Still \/ \E f \in Fibers : Moves(f))
  BY <1>5, WaitStep, WorkStep, NotifyStep, WaitMoves, WorkMoves, NotifyMoves
  DEF StepActions
<1>6. CASE UNCHANGED vars
  <2>0. UNCHANGED <<m_fibers, pc, ft, cb_fiber, cur, at, state, ctx, m_cb, m_num,
                    m_list, sleeping, submitted, produced, consumed>>
    BY <1>6 DEF vars, schedVars, semVars, historyVars
  <2>1. /\ QueueOK' /\ (\A g : Queued(g)' <=> Queued(g))
        /\ (\A c : CbQueued(c)' <=> CbQueued(c))
        /\ ListOK' /\ (\A g : Listed(g)' <=> Listed(g))
        /\ NoIdlePermit' /\ HeldOK' /\ StacksOK' /\ CbFibersOK'
    BY <2>0, SameQueue, SameList, Frame DEF BeforeClash
  <2>2. ASSUME NEW g \in Fibers PROVE FiberOK(g)' /\ SamePermit(g)
    <3>1. StatementOf(g)' = StatementOf(g)
      BY <2>0, <2>1, SameStatements DEF BeforeClash
    <3>2. FiberOK(g) /\ Same(g)
      BY <2>0, <2>1, <3>1, SameTaken DEF Same, BeforeClash, FibersOK
    <3> QED
      BY <3>2, SameFiber
  <2>3. TasksOK'
    BY <2>0, <2>1, SameTasks DEF Entered
  <2> QED
    BY <2>0, <2>1, <2>2, <2>3 DEF BeforeClash, FibersOK, Still, Quiet
<1> QED
  BY <1>1, <1>2, <1>3, <1>4, <1>5, <1>6 DEF Next, TaskStep, StepActions

LEMMA ClashStays == [Next]_vars /\ clash => clash'
  BY ZenonT(60) DEF Next, Submit, ScheduleCallback, WakeSleeper, ThreadLoop, Loop, Enter,
         ScanTake, ScanNothing, Back, Idle, SwapOut, LeaveStack, ResumeFiber,
         StartCallback, SwitchTo, TaskStep, Wait, WaitYield, tryWait, Notify,
         WorkDone, Consume, WorkSuspends, SleepYield, Finish, Step, YieldTo,
         EndTask, vars, schedVars

LEMMA InvariantStep == SemInv /\ [Next]_vars => SemInv'
<1> SUFFICES ASSUME SemInv, [Next]_vars PROVE SemInv'
  OBVIOUS
<1>1. TypeInv /\ TypeInv'
  BY LoadedStep, TypeStep DEF SemInv, TypeInv
<1>2. ASSUME ~clash' PROVE BeforeClash'
  BY <1>1, <1>2, ClashStays, StepBeforeClash DEF SemInv
<1> QED
  BY <1>1, <1>2 DEF SemInv

(* The inductive invariant holds in every state of every behaviour.        *)
THEOREM SemaphoreInvariant == Spec => []SemInv
  BY InvariantInit, InvariantStep, PTL DEF Spec

(* A fiber suspended in wait() or in its work is in m_list, or to be woken *)
(* from outside, or on its way to a thread.                                *)
THEOREM NobodyIsForgotten == Spec => []NoFiberForgotten
<1>1. SemInv => NoFiberForgotten
  BY DEF SemInv, BeforeClash, FibersOK, FiberOK, HasWakeup, NoFiberForgotten
<1> QED
  BY <1>1, SemaphoreInvariant, PTL

(* A fiber is in m_list at most once, and nothing but the notify() that    *)
(* takes it off resumes it.                                                *)
THEOREM WaitersStayParked == Spec => []ListedAreParked
<1>1. SemInv => ListedAreParked
  <2> SUFFICES ASSUME SemInv, ~clash PROVE ListedAreParked
    BY DEF ListedAreParked
  <2>1. ListOK
    BY DEF SemInv, BeforeClash
  <2>2. ASSUME NEW f \in Fibers, Listed(f)
        PROVE  /\ ~Queued(f) /\ ~Taken(f) /\ f \notin sleeping
               /\ StatementOf(f) \in {"yield", "work"}
    BY <2>2 DEF SemInv, BeforeClash, FibersOK, FiberOK, OnePlace
  <2> QED
    BY <2>1, <2>2 DEF ListedAreParked, ListOK
<1> QED
  BY <1>1, SemaphoreInvariant, PTL

-----------------------------------------------------------------------------
(* The steps of the abstract semaphore.                                    *)

Line == [i \in DOMAIN m_list |-> m_cb[m_list[i]]]
Held == {m_cb[f] : f \in Holders}

(* Until a clash a task that has a fiber has one, so that tasks hold and   *)
(* wait for permits as their fibers do.                                    *)
LEMMA TaskNamesFiber ==
  ASSUME TypeInv, BeforeClash
  PROVE  /\ \A f, g \in Fibers :
              (Entered(f) /\ Entered(g) /\ m_cb[f] = m_cb[g]) => f = g
         /\ \A f \in Holders : f \in Fibers /\ Entered(f)
         /\ \A i \in DOMAIN m_list : m_list[i] \in Fibers /\ Entered(m_list[i])
         /\ DOMAIN m_list = 1..Len(m_list) /\ Len(m_list) \in Nat
         /\ Line \in Seq(Tasks) /\ Len(Line) = Len(m_list)
         /\ DOMAIN Line = DOMAIN m_list
         /\ \A i \in DOMAIN m_list : Line[i] = m_cb[m_list[i]]
         /\ Line = <<>> <=> m_list = <<>>
<1>1. ASSUME NEW f \in Fibers, NEW g \in Fibers,
             Entered(f), Entered(g), m_cb[f] = m_cb[g]
      PROVE  f = g
  <2>1. m_cb[f] \in Tasks
    BY <1>1 DEF BeforeClash, FibersOK, FiberOK
  <2> QED
    BY <1>1, <2>1 DEF BeforeClash, TasksOK, TaskOK, Runs
<1>2. \A f \in Holders : f \in Fibers /\ Entered(f)
  BY DEF Holders, Holds, Entered
<1>3. m_list \in Seq(Fibers)
  BY Facts
<1>4. DOMAIN m_list = 1..Len(m_list) /\ Len(m_list) \in Nat
  BY <1>3
<1>5. \A i \in DOMAIN m_list : /\ m_list[i] \in Fibers /\ Entered(m_list[i])
                               /\ m_cb[m_list[i]] \in Tasks
  BY <1>3 DEF BeforeClash, FibersOK, FiberOK, HasWakeup, Listed
<1>6. Line \in [1..Len(m_list) -> Tasks]
  BY <1>4, <1>5 DEF Line
<1>7. Line \in Seq(Tasks) /\ Len(Line) = Len(m_list)
  BY <1>4, <1>6
<1>8. DOMAIN Line = DOMAIN m_list /\ \A i \in DOMAIN m_list : Line[i] = m_cb[m_list[i]]
  BY DEF Line
<1>9. Line = <<>> <=> m_list = <<>>
  BY <1>3, <1>7
<1> QED
  BY <1>1, <1>2, <1>4, <1>5, <1>7, <1>8, <1>9

(* A fiber that is neither in m_list nor holds a permit belongs to a task  *)
(* of which the same is true.                                              *)
LEMMA TaskMoves ==
  ASSUME TypeInv, BeforeClash, NEW f \in Fibers, Entered(f)
  PROVE  /\ m_cb[f] \in Tasks
         /\ m_cb[f] \in Held <=> f \in Holders
         /\ ~Listed(f) => \A i \in DOMAIN Line : Line[i] # m_cb[f]
<1>1. m_cb[f] \in Tasks
  BY DEF BeforeClash, FibersOK, FiberOK
<1>2. m_cb[f] \in Held <=> f \in Holders
  BY TaskNamesFiber DEF Held
<1>3. ASSUME ~Listed(f), NEW i \in DOMAIN Line PROVE Line[i] # m_cb[f]
  BY <1>3, TaskNamesFiber DEF Listed
<1> QED
  BY <1>1, <1>2, <1>3

LineOK ==
  /\ Line \in Seq(Tasks) /\ Len(Line) = Len(m_list)
  /\ \A i \in DOMAIN m_list : Line[i] = m_cb[m_list[i]]

LEMMA LineNames == TypeInv /\ BeforeClash => LineOK
  BY TaskNamesFiber DEF LineOK

(* What becomes of the two when the sets and the list change.              *)
LEMMA HeldAfter ==
  ASSUME TypeInv, BeforeClash, UNCHANGED m_cb, NEW f \in Fibers, Entered(f)
  PROVE  /\ Holders' = Holders => Held' = Held
         /\ Holders' = Holders \cup {f} => Held' = Held \cup {m_cb[f]}
         /\ Holders' = Holders \ {f} => Held' = Held \ {m_cb[f]}
<1>1. Held' = {m_cb[g] : g \in Holders'}
  BY DEF Held
<1>2. ASSUME Holders' = Holders PROVE Held' = Held
  BY <1>1, <1>2 DEF Held
<1>3. ASSUME Holders' = Holders \cup {f} PROVE Held' = Held \cup {m_cb[f]}
  BY <1>1, <1>3 DEF Held
<1>4. ASSUME Holders' = Holders \ {f} PROVE Held' = Held \ {m_cb[f]}
  BY <1>1, <1>4, TaskNamesFiber DEF Held
<1> QED
  BY <1>2, <1>3, <1>4

LEMMA LineAfter ==
  ASSUME TypeInv, BeforeClash, TypeInv', BeforeClash', UNCHANGED m_cb,
         NEW f \in Fibers, Entered(f)
  PROVE  /\ UNCHANGED m_list => Line' = Line
         /\ m_list' = Append(m_list, f) => Line' = Append(Line, m_cb[f])
         /\ m_list # <<>> /\ m_list' = Tail(m_list) =>
              /\ Line # <<>>
              /\ Line' = Tail(Line)
              /\ Head(Line) = m_cb[Head(m_list)]
<1>0. /\ m_list \in Seq(Fibers) /\ m_cb[f] \in Tasks
      /\ DOMAIN m_list = 1..Len(m_list) /\ Len(m_list) \in Nat
      /\ Line \in Seq(Tasks) /\ Len(Line) = Len(m_list)
      /\ \A i \in DOMAIN m_list : Line[i] = m_cb[m_list[i]]
      /\ Line = <<>> <=> m_list = <<>>
  BY Facts, TaskNamesFiber, TaskMoves
<1>1. /\ Line' \in Seq(Tasks) /\ Len(Line') = Len(m_list')
      /\ \A i \in DOMAIN m_list' : Line'[i] = m_cb[m_list'[i]]
  <2>1. LineOK'
    BY LineNames, PTL
  <2> QED
    BY <2>1 DEF LineOK
<1>2. ASSUME UNCHANGED m_list PROVE Line' = Line
  BY <1>2 DEF Line
<1>3. ASSUME m_list' = Append(m_list, f) PROVE Line' = Append(Line, m_cb[f])
  BY <1>0, <1>1, <1>3
<1>4. ASSUME m_list # <<>>, m_list' = Tail(m_list)
      PROVE  /\ Line # <<>>
             /\ Line' = Tail(Line)
             /\ Head(Line) = m_cb[Head(m_list)]
  <2>1. /\ Len(m_list) > 0 /\ Head(m_list) = m_list[1] /\ 1 \in DOMAIN m_list
        /\ Len(m_list') = Len(m_list) - 1
        /\ \A i \in 1..(Len(m_list) - 1) : m_list'[i] = m_list[i + 1]
    BY <1>0, <1>4
  <2>2. Line # <<>> /\ Head(Line) = Line[1]
    BY <1>0, <1>4
  <2>3. \A i \in 1..(Len(m_list) - 1) :
          Line'[i] = m_cb[m_list[i + 1]] /\ Line[i + 1] = m_cb[m_list[i + 1]]
    BY <1>0, <1>1, <2>1, SMTT(30)
  <2>4. Line' = Tail(Line)
    <3> DEFINE tail == Tail(Line)
    <3>1. /\ tail \in Seq(Tasks) /\ Len(tail) = Len(m_list) - 1
          /\ \A i \in 1..(Len(m_list) - 1) : tail[i] = Line[i + 1]
      BY <1>0, <2>1, <2>2
    <3>2. Len(Line') = Len(m_list) - 1
      BY <1>1, <2>1
    <3> HIDE DEF tail
    <3>3. Line' = tail
      BY <1>0, <1>1, <2>3, <3>1, <3>2
    <3> QED
      BY <3>3 DEF tail
  <2> QED
    BY <1>0, <2>1, <2>2, <2>4
<1> QED
  BY <1>2, <1>3, <1>4

(* A step that moves no permit leaves the abstract semaphore alone.        *)
LEMMA StillStutters ==
  ASSUME TypeInv, BeforeClash, Still
  PROVE  UNCHANGED Semaphore!vars
<1>1. /\ m_num' = m_num /\ m_list' = m_list
      /\ \A g \in Fibers : SamePermit(g)
  BY DEF Still, Quiet
<1>2. Held' = Held
  <2>1. Holders' = Holders
    BY <1>1 DEF SamePermit, Holders
  <2>2. \A g \in Holders : m_cb'[g] = m_cb[g]
    BY <1>1 DEF SamePermit, Holders
  <2> QED
    BY <2>1, <2>2 DEF Held
<1>3. Line' = Line
  <2>1. \A i \in DOMAIN m_list : m_cb'[m_list[i]] = m_cb[m_list[i]]
    BY <1>1, TaskNamesFiber DEF SamePermit, Listed
  <2> QED
    BY <1>1, <2>1 DEF Line
<1> QED
  BY <1>1, <1>2, <1>3 DEF Semaphore!vars, Line, Held

(* A step that moves one is the step of that name.                         *)
LEMMA MovesStep ==
  ASSUME TypeInv, BeforeClash, TypeInv', BeforeClash', NEW f \in Fibers, Moves(f)
  PROVE  Semaphore!Next
<1>c. PICK c : c = m_cb[f]
  OBVIOUS
<1>0. /\ Entered(f) /\ ~Listed(f) /\ UNCHANGED m_cb
      /\ Takes(f) \/ Queues(f) \/ Uses(f) \/ Gives(f) \/ Makes(f)
  BY DEF Moves
<1>1. /\ c \in Tasks
      /\ c \in Held <=> f \in Holders
      /\ ~\E i \in DOMAIN Line : Line[i] = c
  BY <1>c, <1>0, TaskMoves
<1>2. /\ Holders' = Holders => Held' = Held
      /\ Holders' = Holders \cup {f} => Held' = Held \cup {c}
      /\ Holders' = Holders \ {f} => Held' = Held \ {c}
      /\ UNCHANGED m_list => Line' = Line
      /\ m_list' = Append(m_list, f) => Line' = Append(Line, c)
      /\ m_list # <<>> /\ m_list' = Tail(m_list) =>
           /\ Line # <<>> /\ Line' = Tail(Line)
           /\ Head(Line) = m_cb[Head(m_list)]
  BY <1>c, <1>0, HeldAfter, LineAfter
<1>3. CASE Takes(f)
  <2>1. /\ m_num > 0 /\ m_num' = m_num - 1 /\ c \notin Held
        /\ Held' = Held \cup {c} /\ Line' = Line
    BY <1>1, <1>2, <1>3 DEF Takes
  <2>2. Semaphore!Acquire(c)
    BY <1>1, <2>1 DEF Semaphore!Acquire, Semaphore!Waits, Line, Held
  <2> QED
    BY <1>1, <2>2 DEF Semaphore!Next
<1>4. CASE Queues(f)
  <2>1. /\ m_num = 0 /\ m_num' = m_num /\ c \notin Held
        /\ Held' = Held /\ Line' = Append(Line, c)
    BY <1>1, <1>2, <1>4 DEF Queues
  <2>2. Semaphore!Enqueue(c)
    BY <1>1, <2>1 DEF Semaphore!Enqueue, Semaphore!Waits, Line, Held
  <2> QED
    BY <1>1, <2>2 DEF Semaphore!Next
<1>5. CASE Uses(f)
  <2>1. /\ m_num' = m_num /\ c \in Held /\ Held' = Held \ {c} /\ Line' = Line
    BY <1>1, <1>2, <1>5 DEF Uses
  <2>2. Semaphore!Consume(c)
    BY <2>1 DEF Semaphore!Consume, Line, Held
  <2> QED
    BY <1>1, <2>2 DEF Semaphore!Next
<1>6. ASSUME NEW kept, kept \subseteq Holders, Hands(kept),
             NEW held, held = {m_cb[g] : g \in kept}
      PROVE  IF Line = <<>>
             THEN m_num' = m_num + 1 /\ Held' = held /\ Line' = Line
             ELSE /\ Line' = Tail(Line)
                  /\ Held' = held \cup {Head(Line)}
                  /\ m_num' = m_num
  <2>1. Held' = {m_cb[g] : g \in Holders'}
    BY <1>0 DEF Held
  <2>2. CASE m_list = <<>>
    BY <1>2, <1>6, <2>1, <2>2, TaskNamesFiber DEF Hands
  <2>3. CASE m_list # <<>>
    BY <1>2, <1>6, <2>1, <2>3 DEF Hands
  <2> QED
    BY <2>2, <2>3
<1>7. CASE Gives(f)
  <2>1. c \in Held /\ Held \ {c} = {m_cb[g] : g \in Holders \ {f}}
    BY <1>c, <1>0, <1>1, <1>7, TaskNamesFiber DEF Gives, Held
  <2>2. Semaphore!Release(c)
    BY <1>6, <1>7, <2>1
    DEF Gives, Semaphore!Release, Semaphore!Grant, Line, Held
  <2> QED
    BY <1>1, <2>2 DEF Semaphore!Next
<1>8. CASE Makes(f)
  <2>1. Held = {m_cb[g] : g \in Holders}
    BY DEF Held
  <2>2. Semaphore!Produce
    BY <1>6, <1>8, <2>1
    DEF Makes, Semaphore!Produce, Semaphore!Grant, Line, Held
  <2> QED
    BY <2>2 DEF Semaphore!Next
<1> QED
  BY <1>0, <1>3, <1>4, <1>5, <1>7, <1>8

(* Initial states map to initial states ...                                *)
LEMMA SemaphoreStart == Init => Semaphore!Init
<1> SUFFICES ASSUME Init PROVE Semaphore!Init
  OBVIOUS
<1>1. m_num = Permits /\ DOMAIN m_list = {}
  BY DEF Init
<1>2. Holders = {}
  BY DEF Init, SchedulerInit, Holders, Holds
<1>3. [i \in DOMAIN m_list |-> m_cb[m_list[i]]] = <<>>
  BY <1>1
<1> QED
  BY <1>1, <1>2, <1>3 DEF Semaphore!Init

(* ... and, as long as no thread has switched to a fiber another thread    *)
(* still executes on, every step of the scheduler and of its tasks is one  *)
(* of the counting semaphore, or none: permits go to those who wait in the *)
(* order in which they came, whatever the threads do.                      *)
THEOREM SemaphoreSteps == Spec => StepsOfSemaphore
<1>1. SemInv /\ SemInv' /\ [Next]_vars
        => (~clash' => (Semaphore!Next \/ UNCHANGED Semaphore!vars))
  <2> SUFFICES ASSUME SemInv, SemInv', [Next]_vars, ~clash'
               PROVE  Semaphore!Next \/ UNCHANGED Semaphore!vars
    OBVIOUS
  <2>1. /\ TypeInv /\ BeforeClash /\ TypeInv' /\ BeforeClash'
    BY ClashStays DEF SemInv
  <2>2. Still \/ \E f \in Fibers : Moves(f)
    BY <2>1, StepBeforeClash
  <2> QED
    BY <2>1, <2>2, StillStutters, MovesStep
<1>2. Spec => [][SemInv /\ SemInv' /\ [Next]_vars]_vars
  BY SemaphoreInvariant, PTL DEF Spec
<1> QED
  BY <1>1, <1>2, PTL DEF StepsOfSemaphore

-----------------------------------------------------------------------------
(* The count of permits.                                                   *)

PermitsInv ==
  ~clash => /\ IsFiniteSet(Holders)
            /\ m_num + Cardinality(Holders) + consumed = Permits + produced

LEMMA MovesKeepPermits ==
  ASSUME TypeInv, NEW f \in Fibers, Moves(f), IsFiniteSet(Holders),
         m_num + Cardinality(Holders) + consumed = Permits + produced
  PROVE  /\ IsFiniteSet(Holders')
         /\ m_num' + Cardinality(Holders') + consumed' = Permits + produced'
<1>0. /\ m_num \in Nat /\ consumed \in Nat /\ produced \in Nat /\ Permits \in Nat
      /\ Cardinality(Holders) \in Nat
      /\ Takes(f) \/ Queues(f) \/ Uses(f) \/ Gives(f) \/ Makes(f)
  BY FS_CardinalityType, FiberSemaphoreAssumption DEF TypeInv, TypeOK, Moves
<1>1. ASSUME NEW g, g \notin Holders
      PROVE  /\ IsFiniteSet(Holders \cup {g})
             /\ Cardinality(Holders \cup {g}) = Cardinality(Holders) + 1
  BY <1>1, FS_AddElement
<1>2. ASSUME f \in Holders
      PROVE  /\ IsFiniteSet(Holders \ {f})
             /\ Cardinality(Holders \ {f}) = Cardinality(Holders) - 1
  BY <1>2, FS_RemoveElement
<1>3. CASE Takes(f)
  BY <1>0, <1>1, <1>3 DEF Takes
<1>4. CASE Queues(f)
  BY <1>0, <1>4 DEF Queues
<1>5. CASE Uses(f)
  BY <1>0, <1>2, <1>5 DEF Uses
<1>6. ASSUME NEW kept, Hands(kept), kept \subseteq Holders, IsFiniteSet(kept)
      PROVE  /\ IsFiniteSet(Holders')
             /\ m_num' + Cardinality(Holders') = m_num + Cardinality(kept) + 1
  <2>1. CASE m_list = <<>>
    <3>1. Cardinality(kept) \in Nat
      BY <1>6, FS_CardinalityType
    <3> QED
      BY <1>0, <1>6, <2>1, <3>1 DEF Hands
  <2>2. CASE m_list # <<>>
    <3>1. PICK h : h = Head(m_list)
      OBVIOUS
    <3>2. h \notin kept /\ Holders' = kept \cup {h} /\ m_num' = m_num
      BY <1>6, <2>2, <3>1 DEF Hands
    <3>3. /\ IsFiniteSet(kept \cup {h})
          /\ Cardinality(kept \cup {h}) = Cardinality(kept) + 1
          /\ Cardinality(kept) \in Nat
      BY <1>6, <3>2, FS_AddElement, FS_CardinalityType
    <3> QED
      BY <1>0, <3>2, <3>3
  <2> QED
    BY <2>1, <2>2
<1>7. CASE Gives(f)
  <2>1. PICK kept : kept = Holders \ {f}
    OBVIOUS
  <2>2. /\ IsFiniteSet(Holders')
        /\ m_num' + Cardinality(Holders') = m_num + Cardinality(kept) + 1
        /\ Cardinality(kept) = Cardinality(Holders) - 1
        /\ consumed' = consumed /\ produced' = produced
    BY <1>2, <1>6, <1>7, <2>1 DEF Gives
  <2>3. Cardinality(Holders') \in Nat
    BY <2>2, FS_CardinalityType
  <2>4. m_num' = m_num \/ m_num' = m_num + 1
    BY <1>7 DEF Gives, Hands
  <2> QED
    BY <1>0, <2>2, <2>3, <2>4
<1>8. CASE Makes(f)
  <2>1. /\ IsFiniteSet(Holders')
        /\ m_num' + Cardinality(Holders') = m_num + Cardinality(Holders) + 1
        /\ consumed' = consumed /\ produced' = produced + 1
    BY <1>6, <1>8 DEF Makes
  <2>2. Cardinality(Holders') \in Nat
    BY <2>1, FS_CardinalityType
  <2>3. m_num' = m_num \/ m_num' = m_num + 1
    BY <1>8 DEF Makes, Hands
  <2> QED
    BY <1>0, <2>1, <2>2, <2>3
<1> QED
  BY <1>0, <1>3, <1>4, <1>5, <1>7, <1>8

(* Permits are neither lost nor invented: what the constructor put in and  *)
(* what producers added is free, held, or used up by consumers.            *)
THEOREM PermitsAreConserved == Spec => []PermitsConserved
<1>1. Init => PermitsInv
  <2> SUFFICES ASSUME Init PROVE PermitsInv
    OBVIOUS
  <2>1. Holders = {}
    BY DEF Init, SchedulerInit, Holders, Holds
  <2> QED
    BY <2>1, FS_EmptySet, FiberSemaphoreAssumption DEF Init, PermitsInv
<1>2. SemInv /\ PermitsInv /\ [Next]_vars => PermitsInv'
  <2> SUFFICES ASSUME SemInv, PermitsInv, [Next]_vars, ~clash' PROVE PermitsInv'
    BY DEF PermitsInv
  <2>1. /\ TypeInv /\ BeforeClash /\ IsFiniteSet(Holders)
        /\ m_num + Cardinality(Holders) + consumed = Permits + produced
    BY ClashStays DEF SemInv, PermitsInv
  <2>2. CASE Still
    <3>1. /\ \A g \in Fibers : Holds(g)' <=> Holds(g)
          /\ UNCHANGED <<m_num, produced, consumed>>
      BY <2>2 DEF Still, Quiet, SamePermit
    <3>2. Holders' = Holders
      BY <3>1 DEF Holders
    <3> QED
      BY <2>1, <3>1, <3>2 DEF PermitsInv
  <2>3. ASSUME NEW f \in Fibers, Moves(f) PROVE PermitsInv'
    BY <2>1, <2>3, MovesKeepPermits DEF PermitsInv
  <2> QED
    BY <2>1, <2>2, <2>3, StepBeforeClash
<1>3. PermitsInv => PermitsConserved
  BY DEF PermitsInv, PermitsConserved
<1> QED
  BY <1>1, <1>2, <1>3, SemaphoreInvariant, PTL DEF Spec

(* A permit is free only if no fiber waits for one, whatever the threads   *)
(* do: wait() and notify() change both under one lock.                     *)
THEOREM NoPermitLiesIdle == Spec => []NoIdlePermit
<1>1. Init => NoIdlePermit
  BY DEF Init, NoIdlePermit
<1>2. SemInv /\ NoIdlePermit /\ [Next]_vars => NoIdlePermit'
  <2> SUFFICES ASSUME SemInv, NoIdlePermit, [Next]_vars PROVE NoIdlePermit'
    OBVIOUS
  <2>0. m_num \in Nat /\ m_list \in Seq(Fibers)
    BY Facts DEF SemInv
  <2>1. CASE UNCHANGED semVars
    BY <2>1 DEF semVars, NoIdlePermit
  <2>2. ASSUME NEW t \in Threads, Wait(t) PROVE NoIdlePermit'
    BY <2>0, <2>2 DEF Wait, NoIdlePermit
  <2>3. ASSUME NEW t \in Threads, tryWait(t) PROVE NoIdlePermit'
    BY <2>0, <2>3 DEF tryWait, NoIdlePermit
  <2>4. ASSUME NEW t \in Threads, Notify(t) PROVE NoIdlePermit'
    BY <2>0, <2>4 DEF Notify, Grant, Increment, NoIdlePermit
  <2> QED
    BY <2>1, <2>2, <2>3, <2>4
    DEF Next, Submit, WakeSleeper, ThreadLoop, TaskStep, WaitYield, WorkDone,
        Consume, WorkSuspends, SleepYield, Finish, vars
<1> QED
  BY <1>1, <1>2, SemaphoreInvariant, PTL DEF Spec

-----------------------------------------------------------------------------
(* One thread.                                                             *)

LEMMA NoClashAlone ==
  ASSUME \A t, u \in Threads : t = u
  PROVE  Spec => []~clash
<1>1. Init => ~clash
  BY DEF Init, SchedulerInit
<1>2. ~clash /\ [Next]_vars => ~clash'
  <2> SUFFICES ASSUME ~clash, [Next]_vars PROVE ~clash'
    OBVIOUS
  <2>1. ASSUME NEW t \in Threads, NEW f, NEW s, SwitchTo(t, f, s) PROVE ~clash'
    BY <2>1 DEF SwitchTo, BusyElsewhere
  <2>2. ASSUME NEW t \in Threads, ThreadLoop(t) PROVE ~clash'
    BY <2>1, <2>2
    DEF ThreadLoop, Loop, Enter, ScanTake, ScanNothing, Back, Idle, SwapOut,
        LeaveStack, ResumeFiber, StartCallback
  <2> QED
    BY <2>2
    DEF Next, Submit, ScheduleCallback, WakeSleeper, TaskStep, Wait, WaitYield,
        tryWait, Notify, WorkDone, Consume, WorkSuspends, SleepYield, Finish,
        Step, YieldTo, EndTask, vars, schedVars
<1> QED
  BY <1>1, <1>2, PTL DEF Spec

(* With one worker thread nobody else executes on the fiber it switches to, *)
(* and FiberSemaphore implements the counting semaphore: every behaviour   *)
(* is one of CountingSemaphore.                                            *)
THEOREM OneThreadImplementsSemaphore ==
  ASSUME \A t, u \in Threads : t = u
  PROVE  Spec => ImplementsSemaphore
<1>1. Spec => []~clash
  BY NoClashAlone
<1>2. UNCHANGED vars => UNCHANGED Semaphore!vars
  <2> SUFFICES ASSUME UNCHANGED vars PROVE UNCHANGED Semaphore!vars
    OBVIOUS
  <2>1. UNCHANGED <<m_num, m_list, m_cb, state, cur, at, ctx>>
    BY DEF vars, schedVars, semVars
  <2>2. Holders' = Holders
    BY <2>1 DEF Holders, Holds, StatementOf, Listed
  <2>3. Held' = Held /\ Line' = Line
    BY <2>1, <2>2 DEF Held, Line
  <2> QED
    BY <2>1, <2>3 DEF Semaphore!vars, Held, Line
<1> QED
  BY <1>1, <1>2, SemaphoreStart, SemaphoreSteps, PTL
  DEF Spec, StepsOfSemaphore, ImplementsSemaphore, Semaphore!Spec
================================================================================
