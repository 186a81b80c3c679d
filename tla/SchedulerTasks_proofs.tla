------------------------ MODULE SchedulerTasks_proofs ------------------------
(***************************************************************************)
(* Proofs about SchedulerTasks, for any number of threads, fibers, tasks   *)
(* and suspensions.                                                        *)
(***************************************************************************)
EXTENDS SchedulerInvariant, Scheduler_proofs, FiniteSetTheorems

-----------------------------------------------------------------------------
(* What schedule() and the scan do to the list.                            *)

LEMMA EntriesAreTyped ==
  ASSUME m_fibers \in Seq(Entry)
  PROVE  \A e \in Entries : e \in Entry
  BY DEF Entries, Range

LEMMA ScheduleEntries ==
  ASSUME m_fibers \in Seq(Entry), NEW e \in Entry, Schedule(e)
  PROVE  /\ Entries' = Entries \cup {e}
         /\ (QueueOK /\ WellFormed(e) /\ \A d \in Entries : ~Twins(d, e))
              => QueueOK'
<1>1. /\ DOMAIN m_fibers = 1..Len(m_fibers)
      /\ DOMAIN m_fibers' = 1..(Len(m_fibers) + 1)
      /\ \A i \in 1..Len(m_fibers) : m_fibers'[i] = m_fibers[i]
      /\ m_fibers'[Len(m_fibers) + 1] = e
      /\ Len(m_fibers) \in Nat
  BY AppendEntry DEF Schedule
<1>2. Entries' = Entries \cup {e}
  BY <1>1 DEF Entries, Range
<1>3. ASSUME QueueOK, WellFormed(e), \A d \in Entries : ~Twins(d, e)
      PROVE  QueueOK'
  <2>1. \A d \in Entries' : WellFormed(d)
    BY <1>2, <1>3 DEF QueueOK
  <2>2. ASSUME NEW i \in DOMAIN m_fibers', NEW j \in DOMAIN m_fibers',
               Twins(m_fibers'[i], m_fibers'[j])
        PROVE  i = j
    <3>1. \A k \in 1..Len(m_fibers) :
            ~Twins(m_fibers[k], e) /\ ~Twins(e, m_fibers[k])
      BY <1>1, <1>3 DEF Entries, Range, Twins
    <3> QED
      BY <1>1, <1>3, <2>2, <3>1 DEF QueueOK
  <2> QED
    BY <2>1, <2>2 DEF QueueOK
<1> QED
  BY <1>2, <1>3

LEMMA EraseEntries ==
  ASSUME m_fibers \in Seq(Entry), NEW i \in DOMAIN m_fibers, Erase(i)
  PROVE  /\ Entries' \subseteq Entries
         /\ m_fibers[i] \in Entries
         /\ QueueOK =>
              /\ QueueOK'
              /\ Entries' = Entries \ {m_fibers[i]}
              /\ \A d \in Entries' : ~Twins(d, m_fibers[i])
<1> DEFINE up(j) == IF j < i THEN j ELSE j + 1
<1>1. /\ DOMAIN m_fibers = 1..Len(m_fibers)
      /\ DOMAIN m_fibers' = 1..(Len(m_fibers) - 1)
      /\ \A j \in DOMAIN m_fibers' : m_fibers'[j] = m_fibers[up(j)]
      /\ Len(m_fibers) \in Nat
  BY RemoveEntry DEF Erase
<1>2. \A j \in DOMAIN m_fibers' : up(j) \in DOMAIN m_fibers /\ up(j) # i
  BY <1>1
<1>3. \A j, k \in DOMAIN m_fibers' : up(j) = up(k) => j = k
  BY <1>1
<1>4. \A k \in DOMAIN m_fibers : k # i => \E j \in DOMAIN m_fibers' : up(j) = k
  <2>1. ASSUME NEW k \in DOMAIN m_fibers, k # i
        PROVE  \E j \in DOMAIN m_fibers' : up(j) = k
    <3> DEFINE j == IF k < i THEN k ELSE k - 1
    <3>1. j \in DOMAIN m_fibers' /\ up(j) = k
      BY <1>1, <2>1
    <3> QED
      BY <3>1
  <2> QED
    BY <2>1
<1> HIDE DEF up
<1>5. Entries' \subseteq Entries /\ m_fibers[i] \in Entries
  BY <1>1, <1>2 DEF Entries, Range
<1>6. ASSUME QueueOK
      PROVE  /\ QueueOK'
             /\ Entries' = Entries \ {m_fibers[i]}
             /\ \A d \in Entries' : ~Twins(d, m_fibers[i])
  <2>1. QueueOK'
    BY <1>1, <1>2, <1>3, <1>5, <1>6 DEF QueueOK
  <2>2. \A d \in Entries' : ~Twins(d, m_fibers[i])
    BY <1>1, <1>2, <1>6 DEF QueueOK, Entries, Range
  <2>3. Twins(m_fibers[i], m_fibers[i])
    BY <1>5, <1>6 DEF QueueOK, WellFormed, Twins
  <2>4. Entries \ {m_fibers[i]} \subseteq Entries'
    BY <1>1, <1>4 DEF Entries, Range
  <2> QED
    BY <1>5, <2>1, <2>2, <2>3, <2>4
<1> QED
  BY <1>5, <1>6

(* Nothing about the list changes when m_fibers does not.                  *)
LEMMA SameEntries ==
  ASSUME UNCHANGED m_fibers
  PROVE  Entries' = Entries /\ (QueueOK => QueueOK')
  BY DEF Entries, QueueOK

-----------------------------------------------------------------------------
(* Types.                                                                  *)

LEMMA TasksAssumed ==
  /\ \A c \in Tasks : Pin[c] \in Threads \cup {AnyThread}
  /\ \A c \in Tasks : Kind[c] \in {"plain", "park", "ready"}
  /\ MaxParks \in Nat
  BY SchedulerTasksAssumption

LEMMA TypeInit == Init => TypeInv
<1> SUFFICES ASSUME Init PROVE TypeInv
  OBVIOUS
<1>1. SchedulerTypeOK(Statements)
  BY InitType DEF Init, Statements
<1>2. TypeOK
  BY <1>1, TasksAssumed DEF Init, TypeOK
<1>3. LoadedOK
  <2>1. Entries = {}
    BY DEF Init, SchedulerInit, Entries, Range
  <2> QED
    BY <2>1, SchedulerAssumption
    DEF Init, SchedulerInit, LoadedOK, OnFiber, NoEntry
<1> QED
  BY <1>2, <1>3 DEF TypeInv

(* A fiber that is executed, listed, held or registered has a callback.    *)
LEMMA LoadedStep == TypeInv /\ [Next]_vars => LoadedOK'
<1> SUFFICES ASSUME TypeInv, [Next]_vars PROVE LoadedOK'
  OBVIOUS
<1>0. /\ TypeOK /\ LoadedOK /\ SchedulerTypeOK(Statements)
      /\ m_fibers \in Seq(Entry)
      /\ \A t \in Threads : ft[t] \in Entry
      /\ NoFiber \notin Fibers
  BY SchedulerAssumption DEF TypeInv, TypeOK, SchedulerTypeOK
<1>1. ASSUME NEW c \in Tasks, Submit(c) PROVE LoadedOK'
  <2>1. CASE ScheduleCallback(c, Pin[c])
    <3>1. Entries' = Entries \cup {CallbackEntry(c, Pin[c])}
      BY <1>0, <2>1, TasksAssumed, EntryTypes, ScheduleEntries
      DEF ScheduleCallback
    <3> QED
      BY <1>0, <1>1, <2>1, <3>1
      DEF Submit, ScheduleCallback, LoadedOK, Loaded, CallbackEntry
  <2>2. ASSUME NEW f \in Fibers, ScheduleNewFiber(f, c, Pin[c])
        PROVE  LoadedOK'
    <3>1. Entries' = Entries \cup {FiberEntry(f, Pin[c])}
      BY <1>0, <2>2, TasksAssumed, EntryTypes, ScheduleEntries
      DEF ScheduleNewFiber
    <3>2. \A g : (Loaded(g) => Loaded(g)') /\ Loaded(f)'
      BY <1>0, <2>2
      DEF ScheduleNewFiber, Reset, Loaded, SchedulerTypeOK
    <3> QED
      BY <1>0, <1>1, <2>2, <3>1, <3>2
      DEF Submit, ScheduleNewFiber, LoadedOK, FiberEntry
  <2> QED
    BY <1>1, <2>1, <2>2 DEF Submit
<1>2. ASSUME NEW f \in Fibers, Wake(f) PROVE LoadedOK'
  <2>1. Entries' = Entries \cup {FiberEntry(f, AnyThread)}
    BY <1>0, <1>2, EntryTypes, ScheduleEntries DEF Wake
  <2>2. waiting \in [Fibers -> Nat] /\ Loaded(f)
    BY <1>0, <1>2 DEF TypeOK, Wake, LoadedOK
  <2> QED
    BY <1>0, <1>2, <2>1, <2>2
    DEF Wake, Unregister, LoadedOK, Loaded, FiberEntry
<1>3. ASSUME NEW t \in Threads, ThreadLoop(t) PROVE LoadedOK'
  <2>0. UNCHANGED waiting
    BY <1>3 DEF ThreadLoop
  <2>1. CASE ScanTake(t)
    <3>1. PICK i \in DOMAIN m_fibers :
            Erase(i) /\ ft' = [ft EXCEPT ![t] = m_fibers[i]]
      BY <2>1 DEF ScanTake
    <3>2. Entries' \subseteq Entries /\ m_fibers[i] \in Entries
      BY <1>0, <3>1, EraseEntries
    <3> QED
      BY <1>0, <2>0, <2>1, <3>1, <3>2
      DEF ScanTake, LoadedOK, Loaded, OnFiber, SchedulerTypeOK
  <2>2. CASE ScanNothing(t) \/ Idle(t)
    BY <1>0, <2>0, <2>2, SameEntries
    DEF ScanNothing, Idle, LoadedOK, Loaded, OnFiber, SchedulerTypeOK
  <2>3. CASE Back(t)
    BY <1>0, <2>0, <2>3, SameEntries
    DEF Back, Continue, LoadedOK, Loaded, OnFiber, SchedulerTypeOK, NoEntry
  <2>4. CASE SwapOut(t) \/ LeaveStack(t)
    BY <1>0, <2>0, <2>4, SameEntries
    DEF SwapOut, LeaveStack, LoadedOK, Loaded, OnFiber, SchedulerTypeOK
  <2>5. CASE ResumeFiber(t)
    <3> DEFINE f == ft[t].fiber
    <3>1. f \in Fibers /\ Loaded(f)
      BY <1>0, <2>5 DEF ResumeFiber, Entry, LoadedOK
    <3>2. CASE Dropped(f)
      BY <1>0, <2>0, <2>5, <3>2, SameEntries
      DEF ResumeFiber, Continue, LoadedOK, Loaded, OnFiber, SchedulerTypeOK, NoEntry
    <3>3. CASE ~Dropped(f)
      BY <1>0, <2>0, <2>5, <3>1, <3>3, SameEntries
      DEF ResumeFiber, SwitchTo, LoadedOK, Loaded, OnFiber, SchedulerTypeOK
    <3> QED
      BY <3>2, <3>3
  <2>6. CASE StartCallback(t)
    <3>1. PICK f \in Fibers : Reset(f, ft[t].cb) /\ SwitchTo(t, f, "begin")
      BY <2>6 DEF StartCallback
    <3>2. ft[t].cb \in Tasks
      BY <1>0, <2>6 DEF StartCallback, Entry
    <3>3. \A g : (Loaded(g) => Loaded(g)') /\ Loaded(f)'
      BY <1>0, <3>1, <3>2 DEF Reset, Loaded, SchedulerTypeOK
    <3> QED
      BY <1>0, <2>0, <2>6, <3>1, <3>3, SameEntries
      DEF StartCallback, SwitchTo, LoadedOK, OnFiber, SchedulerTypeOK
  <2> QED
    BY <1>3, <2>1, <2>2, <2>3, <2>4, <2>5, <2>6 DEF ThreadLoop, Loop, Enter
<1>4. ASSUME NEW t \in Threads, TaskStep(t) PROVE LoadedOK'
  <2>1. CASE Register(t)
    <3>1. Loaded(cur[t])
      BY <1>0, <2>1 DEF Register, Executing, LoadedOK, OnFiber
    <3>2. waiting \in [Fibers -> Nat]
      BY <1>0 DEF TypeOK
    <3> QED
      BY <1>0, <2>1, <3>1, <3>2, SameEntries
      DEF Register, AddRegistration, Step, LoadedOK, Loaded
  <2>2. CASE YieldRegistered(t) \/ YieldUnregistered(t) \/ Finish(t)
    <3>1. /\ UNCHANGED <<m_fibers, cur, ft, m_cb, waiting>>
          /\ \A u \in Threads : pc'[u] \in OnFiber => pc[u] \in OnFiber
      BY <1>0, <2>2
      DEF YieldRegistered, YieldUnregistered, Finish, YieldTo, EndTask,
          Executing, OnFiber, SchedulerTypeOK
    <3> QED
      BY <1>0, <3>1, SameEntries DEF LoadedOK, Loaded
  <2> QED
    BY <1>4, <2>1, <2>2 DEF TaskStep
<1>5. CASE StopStep \/ UNCHANGED vars
  BY <1>0, <1>5, SameEntries
  DEF StopStep, Stop, vars, schedVars, LoadedOK, Loaded
<1> QED
  BY <1>1, <1>2, <1>3, <1>4, <1>5 DEF Next

LEMMA TypeStep == TypeInv /\ [Next]_vars => TypeOK'
<1> SUFFICES ASSUME TypeInv, [Next]_vars PROVE TypeOK'
  OBVIOUS
<1>0. /\ TypeOK /\ LoadedOK /\ LoadedOK'
      /\ "begin" \in Statements /\ SchedulerTypeOK(Statements)
  BY LoadedStep DEF TypeInv, TypeOK, Statements
<1>t. /\ waiting \in [Fibers -> Nat]
      /\ parks \in [Tasks -> 0..MaxParks]
      /\ early \subseteq Tasks
      /\ late \subseteq Tasks
      /\ begun \in [Tasks -> Nat]
      /\ ended \subseteq Tasks
  BY <1>0 DEF TypeOK
<1>1. ASSUME NEW c \in Tasks, Submit(c) PROVE TypeOK'
  <2>1. SchedulerTypeOK(Statements)'
    <3>1. CASE ScheduleCallback(c, Pin[c])
      BY <1>0, <3>1, TasksAssumed, ScheduleCallbackType
    <3>2. CASE \E f \in Fibers : ScheduleNewFiber(f, c, Pin[c])
      BY <1>0, <3>2, TasksAssumed, ScheduleNewFiberType
    <3> QED
      BY <1>1, <3>1, <3>2 DEF Submit
  <2> QED
    BY <1>t, <1>1, <2>1 DEF Submit, TypeOK
<1>2. ASSUME NEW f \in Fibers, Wake(f) PROVE TypeOK'
  <2>1. m_fibers' \in Seq(Entry)
    BY <1>0, <1>2, EntryTypes, ScheduleType DEF Wake, SchedulerTypeOK
  <2>2. SchedulerTypeOK(Statements)'
    BY <1>0, <1>2, <2>1 DEF Wake, SchedulerTypeOK
  <2> QED
    BY <1>t, <1>2, <2>2 DEF Wake, Unregister, TypeOK
<1>3. ASSUME NEW t \in Threads, ThreadLoop(t) PROVE TypeOK'
  <2>1. SchedulerTypeOK(Statements)'
    BY <1>0, <1>3, LoopType, EnterType DEF ThreadLoop
  <2>2. begun' \in [Tasks -> Nat]
    <3>1. CASE begun' = begun
      BY <1>t, <3>1
    <3>2. CASE begun' # begun
      <4>1. /\ pc'[t] = "fiber"
            /\ begun' = [begun EXCEPT ![m_cb'[cur'[t]]] = @ + 1]
        BY <1>3, <3>2 DEF ThreadLoop
      <4>2. m_cb'[cur'[t]] \in Tasks
        BY <1>0, <4>1 DEF LoadedOK, Loaded, OnFiber
      <4> QED
        BY <1>t, <4>1, <4>2
    <3> QED
      BY <3>1, <3>2
  <2>3. UNCHANGED <<waiting, parks, early, late, ended>>
    BY <1>3 DEF ThreadLoop
  <2> QED
    BY <1>t, <2>1, <2>2, <2>3 DEF TypeOK
<1>4. ASSUME NEW t \in Threads, TaskStep(t) PROVE TypeOK'
  <2>0. {"HOLD", "READY", "TERM", "EXECPT"} \subseteq FiberState
    BY DEF FiberState
  <2>t. pc[t] = "fiber" /\ cur[t] \in Fibers /\ m_cb[cur[t]] \in Tasks
    BY <1>0, <1>4
    DEF TaskStep, Register, YieldRegistered, YieldUnregistered, Finish,
        Executing, LoadedOK, Loaded, OnFiber
  <2>1. CASE Register(t)
    <3>1. SchedulerTypeOK(Statements)'
      <4>1. /\ Step(t, "yield") /\ m_fibers' = m_fibers
            /\ "yield" \in Statements /\ m_fibers \in Seq(Entry)
        BY <1>0, <2>1 DEF Register, Statements, SchedulerTypeOK
      <4> QED
        BY <1>0, <4>1, StepType
    <3>2. waiting' \in [Fibers -> Nat] /\ parks' \in [Tasks -> 0..MaxParks]
      BY <1>t, <2>1, <2>t, TasksAssumed DEF Register, AddRegistration
    <3> QED
      BY <1>t, <2>1, <3>1, <3>2 DEF Register, TypeOK
  <2>2. CASE YieldRegistered(t)
    <3>1. SchedulerTypeOK(Statements)'
      BY <1>0, <2>0, <2>2, YieldToType DEF YieldRegistered, Statements
    <3> QED
      BY <1>t, <2>2, <3>1 DEF YieldRegistered, TypeOK
  <2>3. CASE YieldUnregistered(t)
    <3>1. SchedulerTypeOK(Statements)'
      BY <1>0, <2>0, <2>3, YieldToType DEF YieldUnregistered, Statements
    <3> QED
      BY <1>t, <2>3, <3>1 DEF YieldUnregistered, TypeOK
  <2>4. CASE Finish(t)
    <3>1. SchedulerTypeOK(Statements)'
      BY <1>0, <2>0, <2>4, EndTaskType DEF Finish
    <3> QED
      BY <1>t, <2>4, <2>t, <3>1 DEF Finish, TypeOK
  <2> QED
    BY <1>4, <2>1, <2>2, <2>3, <2>4 DEF TaskStep
<1>5. CASE StopStep \/ UNCHANGED vars
  <2>1. SchedulerTypeOK(Statements)'
    BY <1>0, <1>5 DEF StopStep, Stop, vars, schedVars, SchedulerTypeOK
  <2> QED
    BY <1>t, <1>5, <2>1 DEF StopStep, vars, TypeOK
<1> QED
  BY <1>1, <1>2, <1>3, <1>4, <1>5 DEF Next

(* Every variable of the scheduler and of its tasks keeps its type.        *)
THEOREM TypeCorrect == Spec => []TypeOK
<1>1. TypeInv /\ [Next]_vars => TypeInv'
  BY LoadedStep, TypeStep DEF TypeInv
<1>2. TypeInv => TypeOK
  BY DEF TypeInv
<1> QED
  BY <1>1, <1>2, TypeInit, PTL DEF Spec

-----------------------------------------------------------------------------
(* The rest of the invariant, one lemma per action and in it one step per  *)
(* part that the action can disturb.                                       *)

LEMMA Facts ==
  ASSUME TypeInv
  PROVE  /\ m_fibers \in Seq(Entry)
         /\ pc \in [Threads -> Where]
         /\ ft \in [Threads -> Entry]
         /\ need_tick \in [Threads -> BOOLEAN]
         /\ cb_fiber \in [Threads -> Fibers \cup {NoFiber}]
         /\ cur \in [Threads -> Fibers \cup {NoFiber}]
         /\ at \in [Threads -> {"begin", "yield", "resumed"}]
         /\ state \in [Fibers -> FiberState]
         /\ ctx \in [Fibers -> {"begin", "yield", "resumed"}]
         /\ m_cb \in [Fibers -> Tasks \cup {NoTask}]
         /\ waiting \in [Fibers -> Nat]
         /\ begun \in [Tasks -> Nat]
         /\ early \subseteq Tasks /\ late \subseteq Tasks /\ ended \subseteq Tasks
         /\ \A e \in Entries : e \in Entry
         /\ NoFiber \notin Fibers /\ NoTask \notin Tasks
  BY EntriesAreTyped, SchedulerAssumption
  DEF TypeInv, TypeOK, SchedulerTypeOK, Statements

(* The thread that takes a step in a task executes on a fiber of its own.  *)
LEMMA ExecutingFacts ==
  ASSUME TypeInv, BeforeClash, NEW t \in Threads, pc[t] = "fiber"
  PROVE  /\ cur[t] \in Fibers
         /\ m_cb[cur[t]] \in Tasks
         /\ state[cur[t]] = "EXEC"
         /\ \A u \in Threads \ {t} : cur[u] # cur[t]
         /\ HasWakeup(cur[t]) <=> at[t] = "yield"
<1>1. cur[t] \in Fibers /\ m_cb[cur[t]] \in Tasks
  BY DEF TypeInv, LoadedOK, Loaded, OnFiber
<1> QED
  BY <1>1, Facts
  DEF BeforeClash, StacksOK, StackOK, WakeupsOK, WakeupState

(* An entry about to be resumed is not dropped, and fails no assertion.    *)
LEMMA TakenFacts ==
  ASSUME TypeInv, BeforeClash, NEW t \in Threads, pc[t] = "take",
         ft[t].fiber # NoFiber
  PROVE  /\ ft[t].fiber \in Fibers
         /\ state[ft[t].fiber] \in {"INIT", "HOLD", "READY"}
         /\ ~Dropped(ft[t].fiber)
         /\ ft[t].cb = NoTask
<1>1. ft[t].fiber \in Fibers /\ WellFormed(ft[t])
  BY Facts DEF Entry, BeforeClash, HeldOK, Holding
<1>2. Taken(ft[t].fiber) /\ WakeupState(ft[t].fiber)
  BY <1>1 DEF Taken, BeforeClash, WakeupsOK
<1> QED
  BY <1>1, <1>2 DEF WakeupState, HasWakeup, Dropped, WellFormed

(* A fiber a callback is about to run on is new or has ended, and belongs  *)
(* to nobody else.                                                         *)
LEMMA CallbackFacts ==
  ASSUME TypeInv, BeforeClash, NEW t \in Threads, StartCallback(t)
  PROVE  \E f \in Fibers :
           /\ cb_fiber' = [cb_fiber EXCEPT ![t] = f]
           /\ Reset(f, ft[t].cb)
           /\ SwitchTo(t, f, "begin")
           /\ state[f] \in {"FREE", "TERM"}
           /\ ~HasWakeup(f)
           /\ \A u \in Threads \ {t} : cb_fiber[u] # f
           /\ ft[t].cb \in Tasks
           /\ ft[t].fiber = NoFiber
<1>1. PICK f \in Fibers :
        /\ IF cb_fiber[t] # NoFiber THEN f = cb_fiber[t] ELSE state[f] = "FREE"
        /\ cb_fiber' = [cb_fiber EXCEPT ![t] = f]
        /\ Reset(f, ft[t].cb)
        /\ SwitchTo(t, f, "begin")
  BY DEF StartCallback
<1>2. CbFiberOK(t) /\ \A u \in Threads : CbFiberOK(u)
  BY DEF BeforeClash, CbFibersOK
<1>3. state[f] \in {"FREE", "TERM"}
  BY <1>1, <1>2 DEF CbFiberOK, StartCallback, OnFiber
<1>4. ~HasWakeup(f)
  BY <1>3 DEF BeforeClash, WakeupsOK, WakeupState
<1>5. \A u \in Threads \ {t} : cb_fiber[u] # f
  BY <1>1, <1>2, Facts DEF BeforeClash, CbFibersOK, CbFiberOK
<1>6. ft[t].cb \in Tasks /\ ft[t].fiber = NoFiber
  BY Facts DEF StartCallback, Entry, BeforeClash, HeldOK, Holding, WellFormed
<1> QED
  BY <1>1, <1>3, <1>4, <1>5, <1>6

(* The parts that only depend on variables the step leaves alone.          *)
LEMMA Frame ==
  ASSUME BeforeClash
  PROVE  /\ UNCHANGED <<pc, ft>> => HeldOK'
         /\ UNCHANGED <<pc, cur, state, at>> => StacksOK'
         /\ UNCHANGED <<pc, ft, cb_fiber, state>> => CbFibersOK'
         /\ UNCHANGED <<state, ctx, m_cb, cur>> => ContextsOK'
  BY DEF BeforeClash, HeldOK, StacksOK, StackOK, CbFibersOK, CbFiberOK,
         ContextsOK, ContextOK, Suspended, OnStack

(* schedule() of a callback.                                               *)
LEMMA SubmitCallbackStep ==
  ASSUME TypeInv, BeforeClash, NEW c \in Tasks, Submit(c),
         ScheduleCallback(c, Pin[c])
  PROVE  BeforeClash'
<1> DEFINE e == CallbackEntry(c, Pin[c])
<1>0. /\ UNCHANGED <<pc, ft, cb_fiber, cur, at, state, ctx, m_cb, waiting,
                     begun, ended>>
      /\ early' \cup late' = early \cup late \cup {c}
      /\ c \notin early \cup late
  BY DEF Submit, ScheduleCallback
<1>1. /\ e \in Entry /\ e.fiber = NoFiber /\ e.cb = c /\ WellFormed(e)
      /\ c # NoTask
  BY TasksAssumed, EntryTypes, Facts DEF CallbackEntry, WellFormed
<1> HIDE DEF e
<1>2. ~Waits(c) /\ begun[c] = 0
  BY <1>0 DEF BeforeClash, TasksOK, TaskOK
<1>3. /\ Entries' = Entries \cup {e}
      /\ QueueOK'
  <2>1. \A d \in Entries : ~Twins(d, e)
    BY <1>1, <1>2 DEF Waits, CbQueued, Twins
  <2>2. Schedule(e)
    BY DEF ScheduleCallback, e
  <2> QED
    BY <1>1, <2>1, <2>2, Facts, ScheduleEntries DEF BeforeClash
<1>4. \A f \in Fibers : (Queued(f) <=> Queued(f)') /\ (Taken(f) <=> Taken(f)')
  BY <1>0, <1>1, <1>3, Facts DEF Queued, Taken
<1>5. WakeupsOK'
  BY <1>0, <1>4
  DEF BeforeClash, WakeupsOK, SingleWakeup, OneTaker, WakeupState,
      WakeupComes, HasWakeup, Suspended
<1>6. TasksOK'
  <2>1. \A d \in Tasks : /\ CbQueued(d)' <=> CbQueued(d) \/ d = c
                         /\ CbTaken(d)' <=> CbTaken(d)
    BY <1>0, <1>1, <1>3 DEF CbQueued, CbTaken
  <2>2. ASSUME NEW d \in Tasks PROVE TaskOK(d)'
    <3>1. TaskOK(d)
      BY DEF BeforeClash, TasksOK
    <3>2. OnePlace(d)'
      BY <1>0, <1>2, <2>1, <3>1 DEF TaskOK, OnePlace, Waits
    <3>3. Waits(d)' <=> Waits(d) \/ d = c
      BY <1>0, <2>1 DEF Waits
    <3> QED
      BY <1>0, <1>2, <3>1, <3>2, <3>3 DEF TaskOK, OneFiber, Entered
  <2> QED
    BY <2>2 DEF TasksOK
<1> QED
  BY <1>0, <1>3, <1>5, <1>6, Frame DEF BeforeClash

(* schedule() of a new Fiber.                                              *)
LEMMA SubmitFiberStep ==
  ASSUME TypeInv, BeforeClash, NEW c \in Tasks, Submit(c),
         NEW f \in Fibers, ScheduleNewFiber(f, c, Pin[c])
  PROVE  BeforeClash'
<1> DEFINE e == FiberEntry(f, Pin[c])
<1>0. /\ UNCHANGED <<pc, ft, cb_fiber, cur, at, waiting, begun, ended>>
      /\ early' \cup late' = early \cup late \cup {c}
      /\ c \notin early \cup late
      /\ state[f] = "FREE" /\ state' = [state EXCEPT ![f] = "INIT"]
      /\ ctx' = [ctx EXCEPT ![f] = "begin"]
      /\ m_cb' = [m_cb EXCEPT ![f] = c]
  BY DEF Submit, ScheduleNewFiber, Reset
<1>1. /\ e \in Entry /\ e.fiber = f /\ e.cb = NoTask /\ WellFormed(e)
      /\ f # NoFiber /\ c # NoTask
  BY TasksAssumed, EntryTypes, Facts DEF FiberEntry, WellFormed
<1> HIDE DEF e
<1>2. ~Waits(c) /\ begun[c] = 0
  BY <1>0 DEF BeforeClash, TasksOK, TaskOK
<1>3. ~HasWakeup(f)
  BY <1>0 DEF BeforeClash, WakeupsOK, WakeupState
<1>4. \A t \in Threads : cur[t] # f /\ cb_fiber[t] # f
  BY <1>0, <1>1 DEF BeforeClash, StacksOK, StackOK, OnFiber, CbFibersOK, CbFiberOK
<1>5. /\ Entries' = Entries \cup {e}
      /\ QueueOK'
  <2>1. \A d \in Entries : ~Twins(d, e)
    BY <1>1, <1>3 DEF HasWakeup, Queued, Twins
  <2>2. Schedule(e)
    BY DEF ScheduleNewFiber, e
  <2> QED
    BY <1>1, <2>1, <2>2, Facts, ScheduleEntries DEF BeforeClash
<1>6. StacksOK'
  BY <1>0, <1>4, Facts DEF BeforeClash, StacksOK, StackOK, OnFiber
<1>7. CbFibersOK'
  BY <1>0, <1>4, Facts DEF BeforeClash, CbFibersOK, CbFiberOK
<1>8. \A g \in Fibers : /\ Queued(g)' <=> Queued(g) \/ g = f
                        /\ Taken(g)' <=> Taken(g)
  BY <1>0, <1>1, <1>5, Facts DEF Queued, Taken
<1>9. WakeupsOK'
  <2>1. ASSUME NEW g \in Fibers
        PROVE  SingleWakeup(g)' /\ WakeupState(g)' /\ WakeupComes(g)'
    <3>1. SingleWakeup(g) /\ WakeupState(g) /\ WakeupComes(g)
      BY DEF BeforeClash, WakeupsOK
    <3>2. SingleWakeup(g)'
      BY <1>0, <1>3, <1>8, <3>1 DEF SingleWakeup, OneTaker, HasWakeup
    <3>3. CASE g = f
      BY <1>0, <1>3, <1>4, <1>8, <3>2, <3>3, Facts
      DEF WakeupState, WakeupComes, HasWakeup, Suspended, Taken
    <3>4. CASE g # f
      BY <1>0, <1>8, <3>1, <3>2, <3>4, Facts
      DEF WakeupState, WakeupComes, HasWakeup, Suspended
    <3> QED
      BY <3>2, <3>3, <3>4
  <2> QED
    BY <2>1 DEF WakeupsOK
<1>10. ContextsOK'
  BY <1>0, Facts DEF BeforeClash, ContextsOK, ContextOK, Suspended, OnStack
<1>11. TasksOK'
  <2>1. \A d \in Tasks : /\ CbQueued(d)' <=> CbQueued(d)
                         /\ CbTaken(d)' <=> CbTaken(d)
    BY <1>0, <1>1, <1>5, Facts DEF CbQueued, CbTaken
  <2>2. ASSUME NEW d \in Tasks PROVE TaskOK(d)'
    <3>1. TaskOK(d)
      BY DEF BeforeClash, TasksOK
    <3>2. \A g \in Fibers : (state'[g] = "INIT" /\ m_cb'[g] = d)
             <=> (state[g] = "INIT" /\ m_cb[g] = d) \/ (g = f /\ d = c)
      BY <1>0, Facts
    <3>3. \A g \in Fibers : (Entered(g)' /\ m_cb'[g] = d)
             <=> (Entered(g) /\ m_cb[g] = d)
      BY <1>0, Facts DEF Entered
    <3>4. OnePlace(d)'
      BY <1>0, <1>2, <2>1, <3>1, <3>2 DEF TaskOK, OnePlace, Waits
    <3>5. Waits(d)' <=> Waits(d) \/ d = c
      BY <1>0, <2>1, <3>2 DEF Waits
    <3> QED
      BY <1>0, <1>2, <3>1, <3>3, <3>4, <3>5 DEF TaskOK, OneFiber
  <2> QED
    BY <2>2 DEF TasksOK
<1> QED
  BY <1>0, <1>5, <1>6, <1>7, <1>9, <1>10, <1>11, Frame DEF BeforeClash

(* The source of wake-ups schedules the fiber.                             *)
LEMMA WakeStep ==
  ASSUME TypeInv, BeforeClash, NEW f \in Fibers, Wake(f)
  PROVE  BeforeClash'
<1> DEFINE e == FiberEntry(f, AnyThread)
<1>0. /\ UNCHANGED <<pc, ft, cb_fiber, cur, at, state, ctx, m_cb, early, late,
                     begun, ended>>
      /\ waiting[f] > 0 /\ waiting' = [waiting EXCEPT ![f] = @ - 1]
  BY DEF Wake, Unregister
<1>1. /\ e \in Entry /\ e.fiber = f /\ e.cb = NoTask /\ WellFormed(e)
      /\ f # NoFiber
  BY EntryTypes, Facts DEF FiberEntry, WellFormed
<1> HIDE DEF e
<1>2. ~Queued(f) /\ ~Taken(f) /\ waiting[f] = 1
  BY <1>0, Facts DEF BeforeClash, WakeupsOK, SingleWakeup
<1>3. /\ Entries' = Entries \cup {e}
      /\ QueueOK'
  <2>1. \A d \in Entries : ~Twins(d, e)
    BY <1>1, <1>2 DEF Queued, Twins
  <2>2. Schedule(e)
    BY DEF Wake, e
  <2> QED
    BY <1>1, <2>1, <2>2, Facts, ScheduleEntries DEF BeforeClash
<1>4. \A g \in Fibers : /\ Queued(g)' <=> Queued(g) \/ g = f
                        /\ Taken(g)' <=> Taken(g)
                        /\ waiting'[g] = IF g = f THEN 0 ELSE waiting[g]
  BY <1>0, <1>1, <1>2, <1>3, Facts DEF Queued, Taken
<1>5. \A g \in Fibers : HasWakeup(g)' <=> HasWakeup(g)
  BY <1>0, <1>2, <1>4 DEF HasWakeup
<1>6. WakeupsOK'
  <2>1. ASSUME NEW g \in Fibers
        PROVE  SingleWakeup(g)' /\ WakeupState(g)' /\ WakeupComes(g)'
    <3>1. SingleWakeup(g) /\ WakeupState(g) /\ WakeupComes(g)
      BY DEF BeforeClash, WakeupsOK
    <3>2. SingleWakeup(g)'
      BY <1>0, <1>2, <1>4, <3>1 DEF SingleWakeup, OneTaker
    <3>3. WakeupState(g)' /\ WakeupComes(g)'
      BY <1>0, <1>4, <1>5, <3>1 DEF WakeupState, WakeupComes, Suspended
    <3> QED
      BY <3>2, <3>3
  <2> QED
    BY <2>1 DEF WakeupsOK
<1>7. TasksOK'
  <2>1. \A d \in Tasks : /\ CbQueued(d)' <=> CbQueued(d)
                         /\ CbTaken(d)' <=> CbTaken(d)
    BY <1>0, <1>1, <1>3, Facts DEF CbQueued, CbTaken
  <2> QED
    BY <1>0, <2>1
    DEF BeforeClash, TasksOK, TaskOK, OnePlace, Waits, OneFiber, Entered
<1> QED
  BY <1>0, <1>3, <1>6, <1>7, Frame DEF BeforeClash

(* The scan: the entry moves from the list to the thread.                  *)
LEMMA ScanTakeStep ==
  ASSUME TypeInv, BeforeClash, NEW t \in Threads, ThreadLoop(t), ScanTake(t)
  PROVE  BeforeClash'
<1>1. PICK i \in DOMAIN m_fibers :
        /\ Eligible(t, m_fibers[i])
        /\ ft' = [ft EXCEPT ![t] = m_fibers[i]]
        /\ Erase(i)
  BY DEF ScanTake
<1> DEFINE e == m_fibers[i]
<1>0. /\ UNCHANGED <<cb_fiber, cur, at, state, ctx, m_cb>>
      /\ pc[t] = "scan" /\ pc' = [pc EXCEPT ![t] = "take"]
  BY DEF ScanTake
<1>u. UNCHANGED <<waiting, early, late, begun, ended>>
  BY <1>0, Facts DEF ThreadLoop, Enter, ResumeFiber, StartCallback
<1>2. /\ QueueOK' /\ Entries' = Entries \ {e} /\ e \in Entries
      /\ \A d \in Entries' : ~Twins(d, e)
      /\ WellFormed(e)
  BY <1>1, Facts, EraseEntries DEF BeforeClash, QueueOK
<1>3. /\ ft' = [ft EXCEPT ![t] = e]
      /\ e.fiber \in Fibers => state[e.fiber] # "EXEC"
      /\ e \in Entry
  BY <1>1, <1>2, Facts DEF Eligible
<1> HIDE DEF e
<1>4. HeldOK'
  BY <1>0, <1>2, <1>3, Facts DEF BeforeClash, HeldOK, Holding
<1>5. StacksOK' /\ CbFibersOK' /\ ContextsOK'
  BY <1>0, <1>3, Facts, Frame
  DEF BeforeClash, StacksOK, StackOK, CbFibersOK, CbFiberOK, OnFiber
<1>6. \A g \in Fibers : /\ Queued(g)' <=> Queued(g) /\ g # e.fiber
                        /\ Taken(g)' <=> Taken(g) \/ g = e.fiber
                        /\ g = e.fiber => Queued(g)
  BY <1>0, <1>2, <1>3, Facts DEF Queued, Taken, Twins
<1>7. WakeupsOK'
  <2>1. ASSUME NEW g \in Fibers
        PROVE  SingleWakeup(g)' /\ WakeupState(g)' /\ WakeupComes(g)'
    <3>1. SingleWakeup(g) /\ WakeupState(g) /\ WakeupComes(g)
      BY DEF BeforeClash, WakeupsOK
    <3>2. HasWakeup(g)' <=> HasWakeup(g)
      BY <1>u, <1>6 DEF HasWakeup
    <3>3. OneTaker(g)'
      BY <1>0, <1>3, <1>6, <3>1, Facts DEF SingleWakeup, OneTaker, Taken
    <3>4. SingleWakeup(g)'
      BY <1>u, <1>6, <3>1, <3>3 DEF SingleWakeup
    <3>5. WakeupState(g)' /\ WakeupComes(g)'
      BY <1>0, <1>3, <1>6, <3>1, <3>2, Facts
      DEF WakeupState, WakeupComes, Suspended
    <3> QED
      BY <3>4, <3>5
  <2> QED
    BY <2>1 DEF WakeupsOK
<1>8. TasksOK'
  <2>1. \A d \in Tasks : /\ CbQueued(d)' <=> CbQueued(d) /\ d # e.cb
                         /\ CbTaken(d)' <=> CbTaken(d) \/ d = e.cb
                         /\ d = e.cb => CbQueued(d)
    BY <1>0, <1>2, <1>3, Facts DEF CbQueued, CbTaken, Twins
  <2>2. ASSUME NEW d \in Tasks PROVE TaskOK(d)'
    <3>1. TaskOK(d)
      BY DEF BeforeClash, TasksOK
    <3>2. OnePlace(d)'
      BY <1>0, <1>3, <2>1, <3>1, Facts DEF TaskOK, OnePlace, CbTaken
    <3>3. Waits(d)' <=> Waits(d)
      BY <1>0, <2>1 DEF Waits
    <3> QED
      BY <1>0, <1>u, <3>1, <3>2, <3>3 DEF TaskOK, OneFiber, Entered
  <2> QED
    BY <2>2 DEF TasksOK
<1> QED
  BY <1>2, <1>4, <1>5, <1>7, <1>8 DEF BeforeClash

(* The places of wake-ups and tasks when a step takes no entry, resumes    *)
(* none and leaves the list alone.                                         *)
LEMMA SamePlaces ==
  ASSUME BeforeClash, UNCHANGED m_fibers,
         \A t \in Threads : /\ pc'[t] = "take" <=> pc[t] = "take"
                            /\ pc[t] = "take" => ft'[t] = ft[t]
  PROVE  /\ QueueOK'
         /\ \A f : /\ Queued(f)' <=> Queued(f)
                   /\ Taken(f)' <=> Taken(f)
                   /\ OneTaker(f)' <=> OneTaker(f)
         /\ UNCHANGED waiting =>
              \A f \in Fibers : /\ SingleWakeup(f)'
                                /\ HasWakeup(f)' <=> HasWakeup(f)
         /\ UNCHANGED <<state, m_cb, early, late, begun, ended>> => TasksOK'
         /\ \A c : /\ CbQueued(c)' <=> CbQueued(c)
                   /\ CbTaken(c)' <=> CbTaken(c)
<1>1. QueueOK' /\ Entries' = Entries
  BY SameEntries DEF BeforeClash
<1>2. \A f : /\ Queued(f)' <=> Queued(f)
             /\ Taken(f)' <=> Taken(f)
             /\ OneTaker(f)' <=> OneTaker(f)
  BY <1>1 DEF Queued, Taken, OneTaker
<1>3. \A c : /\ CbQueued(c)' <=> CbQueued(c)
             /\ CbTaken(c)' <=> CbTaken(c)
  BY <1>1 DEF CbQueued, CbTaken
<1>4. ASSUME UNCHANGED waiting, NEW f \in Fibers
      PROVE  SingleWakeup(f)' /\ (HasWakeup(f)' <=> HasWakeup(f))
  BY <1>2, <1>4 DEF BeforeClash, WakeupsOK, SingleWakeup, HasWakeup
<1>5. ASSUME UNCHANGED <<state, m_cb, early, late, begun, ended>>
      PROVE  TasksOK'
  <2>1. ASSUME NEW c \in Tasks PROVE TaskOK(c)'
    <3>1. TaskOK(c)
      BY DEF BeforeClash, TasksOK
    <3>2. OnePlace(c)' /\ (Waits(c)' <=> Waits(c))
      BY <1>3, <1>5, <3>1 DEF TaskOK, OnePlace, Waits
    <3> QED
      BY <1>5, <3>1, <3>2 DEF TaskOK, OneFiber, Entered
  <2> QED
    BY <2>1 DEF TasksOK
<1> QED
  BY <1>1, <1>2, <1>3, <1>4, <1>5

(* A round of the idle fiber, and a scan of an empty list.                 *)
LEMMA IdleStep ==
  ASSUME TypeInv, BeforeClash, NEW t \in Threads, ThreadLoop(t),
         ScanNothing(t) \/ Idle(t)
  PROVE  BeforeClash'
<1>0. /\ UNCHANGED <<m_fibers, ft, cb_fiber, cur, at, state, ctx, m_cb>>
      /\ pc[t] \in {"scan", "idle"}
      /\ pc'[t] \in {"scan", "idle", "done"}
      /\ pc' = [pc EXCEPT ![t] = pc'[t]]
  BY Facts DEF ScanNothing, Idle
<1>u. UNCHANGED <<waiting, early, late, begun, ended>>
  BY <1>0, Facts DEF ThreadLoop, Enter, ResumeFiber, StartCallback
<1>1. \A u \in Threads \ {t} : pc'[u] = pc[u]
  BY <1>0, Facts
<1>2. /\ QueueOK' /\ TasksOK'
      /\ \A f \in Fibers : /\ SingleWakeup(f)'
                           /\ HasWakeup(f)' <=> HasWakeup(f)
                           /\ Taken(f)' <=> Taken(f)
  BY <1>0, <1>u, <1>1, SamePlaces
<1>3. HeldOK' /\ StacksOK' /\ CbFibersOK' /\ ContextsOK'
  BY <1>0, <1>1, Frame
  DEF BeforeClash, HeldOK, Holding, StacksOK, StackOK, CbFibersOK, CbFiberOK,
      OnFiber
<1>4. WakeupsOK'
  BY <1>0, <1>u, <1>1, <1>2
  DEF BeforeClash, WakeupsOK, WakeupState, WakeupComes, Suspended
<1> QED
  BY <1>2, <1>3, <1>4 DEF BeforeClash

(* swapIn has returned.                                                    *)
LEMMA BackStep ==
  ASSUME TypeInv, BeforeClash, NEW t \in Threads, ThreadLoop(t), Back(t)
  PROVE  BeforeClash'
<1>0. /\ UNCHANGED <<m_fibers, cur, at, state, ctx, m_cb>>
      /\ pc[t] = "back"
      /\ pc'[t] \in {"scan", "idle"}
      /\ pc' = [pc EXCEPT ![t] = pc'[t]]
      /\ ft' = [ft EXCEPT ![t] = NoEntry]
      /\ cb_fiber' = [cb_fiber EXCEPT ![t] = cb_fiber'[t]]
      /\ cb_fiber'[t] # NoFiber =>
           /\ cb_fiber'[t] = cb_fiber[t]
           /\ ft[t].cb = NoTask \/ state[cb_fiber[t]] = "TERM"
  BY Facts DEF Back, Continue
<1>u. UNCHANGED <<waiting, early, late, begun, ended>>
  BY <1>0, Facts DEF ThreadLoop, Enter, ResumeFiber, StartCallback
<1>1. \A u \in Threads \ {t} : /\ pc'[u] = pc[u] /\ ft'[u] = ft[u]
                               /\ cb_fiber'[u] = cb_fiber[u]
  BY <1>0, Facts
<1>2. /\ QueueOK' /\ TasksOK'
      /\ \A f \in Fibers : /\ SingleWakeup(f)'
                           /\ HasWakeup(f)' <=> HasWakeup(f)
                           /\ Taken(f)' <=> Taken(f)
  BY <1>0, <1>u, <1>1, SamePlaces
<1>3. HeldOK' /\ StacksOK' /\ ContextsOK'
  BY <1>0, <1>1, Frame
  DEF BeforeClash, HeldOK, Holding, StacksOK, StackOK, OnFiber
<1>4. CbFibersOK'
  BY <1>0, <1>1 DEF BeforeClash, CbFibersOK, CbFiberOK, OnFiber
<1>5. WakeupsOK'
  BY <1>0, <1>u, <1>1, <1>2
  DEF BeforeClash, WakeupsOK, WakeupState, WakeupComes, Suspended
<1> QED
  BY <1>2, <1>3, <1>4, <1>5 DEF BeforeClash

(* The thread leaves the stack of its fiber, which yielded or ended.       *)
LEMMA LeaveStep ==
  ASSUME TypeInv, BeforeClash, NEW t \in Threads, ThreadLoop(t),
         SwapOut(t) \/ LeaveStack(t)
  PROVE  BeforeClash'
<1> DEFINE f == cur[t]
<1>0. /\ UNCHANGED <<m_fibers, ft, cb_fiber, state, m_cb>>
      /\ pc[t] \in {"swapOut", "exit"}
      /\ pc' = [pc EXCEPT ![t] = "back"]
      /\ cur' = [cur EXCEPT ![t] = NoFiber]
      /\ at' = [at EXCEPT ![t] = "begin"]
      /\ pc[t] = "swapOut" => ctx' = [ctx EXCEPT ![f] = at[t]]
      /\ pc[t] = "exit" => ctx' = ctx
  BY DEF SwapOut, LeaveStack, Save
<1>u. UNCHANGED <<waiting, early, late, begun, ended>>
  BY <1>0, Facts DEF ThreadLoop, Enter, ResumeFiber, StartCallback
<1>1. \A u \in Threads \ {t} : /\ pc'[u] = pc[u] /\ cur'[u] = cur[u]
                               /\ at'[u] = at[u]
  BY <1>0, Facts
<1>2. /\ QueueOK' /\ TasksOK'
      /\ \A g \in Fibers : /\ SingleWakeup(g)'
                           /\ HasWakeup(g)' <=> HasWakeup(g)
                           /\ Taken(g)' <=> Taken(g)
  BY <1>0, <1>u, <1>1, Facts, SamePlaces
<1>3. HeldOK' /\ StacksOK' /\ CbFibersOK'
  BY <1>0, <1>1, Facts
  DEF BeforeClash, HeldOK, Holding, StacksOK, StackOK, CbFibersOK, CbFiberOK,
      OnFiber
<1>4. WakeupsOK'
  BY <1>0, <1>u, <1>1, <1>2, Facts
  DEF BeforeClash, WakeupsOK, WakeupState, WakeupComes, Suspended
<1>5. ContextsOK'
  <2>1. /\ f \in Fibers
        /\ pc[t] = "swapOut" => state[f] \in {"HOLD", "READY"} /\ at[t] = "resumed"
        /\ pc[t] = "exit" => state[f] \in {"TERM", "EXECPT"}
    BY <1>0, Facts DEF BeforeClash, StacksOK, StackOK, OnFiber
  <2>2. ASSUME NEW g \in Fibers PROVE ContextOK(g)'
    <3>1. ContextOK(g) /\ (g # f => (OnStack(g)' <=> OnStack(g)))
      BY <1>0, <1>1, Facts DEF BeforeClash, ContextsOK, OnStack
    <3>2. CASE g = f
      BY <1>0, <2>1, <3>1, <3>2, Facts DEF ContextOK, Suspended
    <3>3. CASE g # f
      BY <1>0, <2>1, <3>1, <3>3, Facts DEF ContextOK, Suspended
    <3> QED
      BY <3>2, <3>3
  <2> QED
    BY <2>2 DEF ContextsOK
<1> QED
  BY <1>2, <1>3, <1>4, <1>5 DEF BeforeClash

(* A fiber is resumed, for the first time or after it was suspended.       *)
LEMMA ResumeStep ==
  ASSUME TypeInv, BeforeClash, ~clash', NEW t \in Threads,
         ThreadLoop(t), ResumeFiber(t)
  PROVE  BeforeClash'
<1>f. PICK f \in Fibers, d \in Tasks :
        /\ ft[t].fiber = f /\ m_cb[f] = d
        /\ pc[t] = "take" /\ ft[t].cb = NoTask
        /\ state[f] \in {"INIT", "HOLD", "READY"} /\ ~Dropped(f)
  <2>1. pc[t] = "take" /\ ft[t].fiber # NoFiber
    BY DEF ResumeFiber
  <2>2. ft[t].fiber \in Fibers
    BY <2>1, TakenFacts
  <2>3. m_cb[ft[t].fiber] \in Tasks
    BY <2>2, Facts DEF TypeInv, LoadedOK, Loaded
  <2> QED
    BY <2>1, <2>2, <2>3, TakenFacts
<1>0. /\ UNCHANGED <<m_fibers, ft, cb_fiber, ctx, m_cb>>
      /\ SwitchTo(t, f, ctx[f])
  BY <1>f DEF ResumeFiber
<1>s. /\ pc' = [pc EXCEPT ![t] = "fiber"]
      /\ cur' = [cur EXCEPT ![t] = f]
      /\ state' = [state EXCEPT ![f] = "EXEC"]
      /\ at' = [at EXCEPT ![t] = ctx[f]]
      /\ \A u \in Threads \ {t} : cur[u] # f
  BY <1>0 DEF SwitchTo, BusyElsewhere
<1>u. /\ UNCHANGED <<waiting, early, late, ended>>
      /\ begun' = IF ctx[f] = "begin" THEN [begun EXCEPT ![d] = @ + 1] ELSE begun
  <2>1. ~Loop(t)
    BY <1>0, <1>s, <1>f, Facts
    DEF Loop, ScanTake, ScanNothing, Back, Idle, SwapOut, LeaveStack
  <2>2. pc'[t] = "fiber" /\ at'[t] = ctx[f] /\ m_cb'[cur'[t]] = d
    BY <1>0, <1>s, <1>f, Facts
  <2> QED
    BY <2>1, <2>2 DEF ThreadLoop
<1>1. \A u \in Threads \ {t} : /\ pc'[u] = pc[u] /\ cur'[u] = cur[u]
                               /\ at'[u] = at[u]
  BY <1>s, Facts
<1>2. /\ pc'[t] = "fiber" /\ cur'[t] = f /\ at'[t] = ctx[f]
      /\ state'[f] = "EXEC" /\ f # NoFiber
      /\ \A g \in Fibers \ {f} : state'[g] = state[g]
  BY <1>f, <1>s, Facts
<1>3. /\ ctx[f] \in {"begin", "resumed"}
      /\ ctx[f] = "begin" <=> state[f] = "INIT"
  <2>1. cur[t] # f
    BY <1>f, <1>2 DEF BeforeClash, StacksOK, StackOK, OnFiber
  <2> QED
    BY <1>f, <1>s, <2>1
    DEF BeforeClash, ContextsOK, ContextOK, Suspended, OnStack
<1>4. QueueOK' /\ HeldOK'
  BY <1>0, <1>1, <1>2, <1>f, SameEntries DEF BeforeClash, HeldOK, Holding
<1>5. StacksOK'
  BY <1>1, <1>2, <1>s, Facts DEF BeforeClash, StacksOK, StackOK, OnFiber
<1>6. CbFibersOK'
  <2>1. cb_fiber' = cb_fiber /\ ft' = ft
    BY <1>0
  <2>2. ASSUME NEW u \in Threads, cb_fiber[u] # NoFiber PROVE CbFiberOK(u)'
    <3>1. cb_fiber[u] \in Fibers /\ CbFiberOK(u)
      BY <2>2, Facts DEF BeforeClash, CbFibersOK
    <3>2. CASE u = t
      <4>1. state[cb_fiber[t]] = "TERM"
        BY <1>f, <2>2, <3>1, <3>2 DEF CbFiberOK, OnFiber
      <4>2. cb_fiber[t] # f
        BY <1>f, <4>1
      <4>3. state'[cb_fiber[t]] = "TERM"
        BY <1>2, <3>1, <3>2, <4>1, <4>2
      <4> QED
        BY <2>1, <3>2, <4>3 DEF CbFiberOK
    <3>3. CASE u # t /\ cb_fiber[u] = f
      BY <1>f, <1>1, <1>2, <2>1, <2>2, <3>1, <3>3 DEF CbFiberOK
    <3>4. CASE u # t /\ cb_fiber[u] # f
      BY <1>1, <1>2, <2>1, <2>2, <3>1, <3>4 DEF CbFiberOK
    <3> QED
      BY <3>2, <3>3, <3>4
  <2>3. \A u \in Threads : CbFiberOK(u)'
    BY <2>1, <2>2 DEF CbFiberOK
  <2> QED
    BY <2>1, <2>3 DEF BeforeClash, CbFibersOK
<1>7. /\ Taken(f) /\ ~Taken(f)' /\ ~HasWakeup(f)'
      /\ \A g \in Fibers : /\ Queued(g)' <=> Queued(g)
                           /\ g # f => (Taken(g)' <=> Taken(g))
  <2>1. Taken(f) /\ SingleWakeup(f) /\ OneTaker(f)
    BY <1>f DEF Taken, BeforeClash, WakeupsOK, SingleWakeup
  <2>2. \A g \in Fibers : Queued(g)' <=> Queued(g)
    BY <1>0, SameEntries DEF Queued
  <2>3. \A g \in Fibers : g # f => (Taken(g)' <=> Taken(g))
    BY <1>0, <1>1, <1>2, <1>f DEF Taken
  <2>4. ~Taken(f)'
    BY <1>0, <1>1, <1>2, <1>f, <2>1 DEF Taken, OneTaker
  <2>5. ~HasWakeup(f)'
    BY <1>u, <1>f, <2>1, <2>2, <2>4, Facts DEF SingleWakeup, HasWakeup
  <2> QED
    BY <2>1, <2>2, <2>3, <2>4, <2>5
<1>8. WakeupsOK'
  <2>1. ASSUME NEW g \in Fibers
        PROVE  SingleWakeup(g)' /\ WakeupState(g)' /\ WakeupComes(g)'
    <3>1. SingleWakeup(g) /\ WakeupState(g) /\ WakeupComes(g)
      BY DEF BeforeClash, WakeupsOK
    <3>2. OneTaker(g)'
      BY <1>0, <1>1, <1>2, <3>1 DEF SingleWakeup, OneTaker
    <3>3. SingleWakeup(g)'
      BY <1>u, <1>7, <3>1, <3>2 DEF SingleWakeup
    <3>4. CASE g = f
      <4>1. \A u \in Threads : (pc'[u] = "fiber" /\ cur'[u] = f) => at'[u] # "yield"
        BY <1>1, <1>2, <1>3, <1>s
      <4> QED
        BY <1>2, <1>7, <3>3, <3>4, <4>1
        DEF WakeupState, WakeupComes, Suspended
    <3>5. CASE g # f
      <4>1. HasWakeup(g)' <=> HasWakeup(g)
        BY <1>u, <1>7, <3>5 DEF HasWakeup
      <4>2. state'[g] = state[g] /\ m_cb' = m_cb
        BY <1>0, <1>2, <3>5
      <4>3. \A u \in Threads : (pc'[u] = "fiber" /\ cur'[u] = g) =>
                 pc[u] = "fiber" /\ cur[u] = g /\ at'[u] = at[u]
        BY <1>1, <1>2, <3>5
      <4> QED
        BY <1>7, <3>1, <3>3, <3>5, <4>1, <4>2, <4>3
        DEF WakeupState, WakeupComes, Suspended
    <3> QED
      BY <3>4, <3>5
  <2> QED
    BY <2>1 DEF WakeupsOK
<1>9. ContextsOK'
  <2>1. ASSUME NEW g \in Fibers, g # f PROVE OnStack(g)' <=> OnStack(g)
    <3>1. cur[t] = NoFiber
      BY <1>f DEF BeforeClash, StacksOK, StackOK, OnFiber
    <3>2. g # NoFiber
      BY Facts
    <3>3. \A u \in Threads : cur'[u] = g <=> cur[u] = g
      BY <1>1, <1>2, <2>1, <3>1, <3>2
    <3> QED
      BY <3>3 DEF OnStack
  <2>2. state[f] # "FREE"
    BY <1>f
  <2>3. ContextOK(f)'
    BY <1>0, <1>2, <2>2 DEF BeforeClash, ContextsOK, ContextOK, Suspended
  <2>4. ASSUME NEW g \in Fibers, g # f PROVE ContextOK(g)'
    <3>1. ContextOK(g)
      BY DEF BeforeClash, ContextsOK
    <3> QED
      BY <1>0, <1>2, <2>1, <2>4, <3>1 DEF ContextOK, Suspended
  <2> QED
    BY <2>3, <2>4 DEF ContextsOK
<1>10. TasksOK'
  <2>1. \A c \in Tasks : /\ CbQueued(c)' <=> CbQueued(c)
                         /\ CbTaken(c)' <=> CbTaken(c)
    BY <1>0, <1>1, <1>2, <1>f, Facts, SameEntries DEF CbQueued, CbTaken
  <2>2. ASSUME NEW c \in Tasks PROVE TaskOK(c)'
    <3>1. TaskOK(c)
      BY DEF BeforeClash, TasksOK
    <3>2. OnePlace(c)'
      <4>1. \A g \in Fibers : state'[g] = "INIT" => state[g] = "INIT"
        BY <1>2
      <4> QED
        BY <1>0, <1>1, <1>2, <2>1, <3>1, <4>1 DEF TaskOK, OnePlace
    <3>3. CASE c # d
      <4>1. begun'[c] = begun[c]
        BY <1>u, <1>f, <3>3, Facts
      <4>2. \A g \in Fibers : /\ (state'[g] = "INIT" /\ m_cb'[g] = c)
                                   <=> (state[g] = "INIT" /\ m_cb[g] = c)
                              /\ (Entered(g)' /\ m_cb'[g] = c)
                                   <=> (Entered(g) /\ m_cb[g] = c)
        BY <1>0, <1>2, <1>f, <3>3 DEF Entered
      <4>3. Waits(c)' <=> Waits(c)
        BY <2>1, <4>2 DEF Waits
      <4> QED
        BY <1>u, <3>1, <3>2, <4>1, <4>2, <4>3 DEF TaskOK, OneFiber
    <3>4. CASE c = d /\ state[f] = "INIT"
      <4>1. Waits(c) /\ begun[c] = 0 /\ begun'[c] = 1
        BY <1>u, <1>f, <1>3, <3>1, <3>4, Facts DEF TaskOK, Waits
      <4>2. ~Waits(c)'
        BY <1>0, <1>2, <1>f, <2>1, <3>1, <3>4 DEF TaskOK, OnePlace, Waits
      <4>3. \A g \in Fibers : (Entered(g)' /\ m_cb'[g] = c) => g = f
        BY <1>0, <1>2, <3>1, <4>1 DEF TaskOK, Entered
      <4> QED
        BY <1>u, <3>1, <3>2, <4>1, <4>2, <4>3 DEF TaskOK, OneFiber
    <3>5. CASE c = d /\ state[f] # "INIT"
      <4>1. Entered(f) /\ begun' = begun
        BY <1>u, <1>f, <1>3, <3>5 DEF Entered
      <4>2. \A g \in Fibers : /\ (state'[g] = "INIT" /\ m_cb'[g] = c)
                                   <=> (state[g] = "INIT" /\ m_cb[g] = c)
                              /\ (Entered(g)' /\ m_cb'[g] = c)
                                   <=> (Entered(g) /\ m_cb[g] = c)
        BY <1>0, <1>2, <3>5, <4>1 DEF Entered
      <4>3. Waits(c)' <=> Waits(c)
        BY <2>1, <4>2 DEF Waits
      <4> QED
        BY <1>u, <3>1, <3>2, <4>1, <4>2, <4>3 DEF TaskOK, OneFiber
    <3> QED
      BY <3>3, <3>4, <3>5
  <2> QED
    BY <2>2 DEF TasksOK
<1> QED
  BY <1>4, <1>5, <1>6, <1>8, <1>9, <1>10 DEF BeforeClash

(* A callback is entered on the thread's own fiber, or on a new one.       *)
LEMMA CallbackStep ==
  ASSUME TypeInv, BeforeClash, ~clash', NEW t \in Threads,
         ThreadLoop(t), StartCallback(t)
  PROVE  BeforeClash'
<1>f. PICK f \in Fibers :
        /\ cb_fiber' = [cb_fiber EXCEPT ![t] = f]
        /\ Reset(f, ft[t].cb)
        /\ SwitchTo(t, f, "begin")
        /\ state[f] \in {"FREE", "TERM"}
        /\ ~HasWakeup(f)
        /\ \A u \in Threads \ {t} : cb_fiber[u] # f
        /\ ft[t].cb \in Tasks
        /\ ft[t].fiber = NoFiber
  BY CallbackFacts
<1>d. PICK d \in Tasks : ft[t].cb = d
  BY <1>f
<1>0. /\ UNCHANGED <<m_fibers, ft>>
      /\ pc[t] = "take" /\ pc' = [pc EXCEPT ![t] = "fiber"]
      /\ cur' = [cur EXCEPT ![t] = f]
      /\ state' = [state EXCEPT ![f] = "EXEC"]
      /\ at' = [at EXCEPT ![t] = "begin"]
      /\ ctx' = [ctx EXCEPT ![f] = "begin"]
      /\ m_cb' = [m_cb EXCEPT ![f] = d]
      /\ cb_fiber' = [cb_fiber EXCEPT ![t] = f]
      /\ \A u \in Threads \ {t} : cur[u] # f
  BY <1>f, <1>d DEF StartCallback, SwitchTo, Reset, BusyElsewhere
<1>1. \A u \in Threads \ {t} : /\ pc'[u] = pc[u] /\ cur'[u] = cur[u]
                               /\ at'[u] = at[u] /\ cb_fiber'[u] = cb_fiber[u]
  BY <1>0, Facts
<1>2. /\ pc'[t] = "fiber" /\ cur'[t] = f /\ at'[t] = "begin"
      /\ cb_fiber'[t] = f /\ state'[f] = "EXEC" /\ m_cb'[f] = d
      /\ f # NoFiber /\ d # NoTask
      /\ \A g \in Fibers \ {f} : /\ state'[g] = state[g]
                                 /\ m_cb'[g] = m_cb[g]
                                 /\ ctx'[g] = ctx[g]
  BY <1>f, <1>0, Facts
<1>u. /\ UNCHANGED <<waiting, early, late, ended>>
      /\ begun' = [begun EXCEPT ![d] = @ + 1]
  <2>1. ~Loop(t)
    BY <1>0, <1>2
    DEF Loop, ScanTake, ScanNothing, Back, Idle, SwapOut, LeaveStack
  <2>2. pc'[t] = "fiber" /\ at'[t] = "begin" /\ m_cb'[cur'[t]] = d
    BY <1>2
  <2> QED
    BY <2>1, <2>2 DEF ThreadLoop
<1>4. QueueOK' /\ HeldOK'
  BY <1>0, <1>1, <1>2, SameEntries DEF BeforeClash, HeldOK, Holding
<1>5. StacksOK'
  BY <1>0, <1>1, <1>2, Facts DEF BeforeClash, StacksOK, StackOK, OnFiber
<1>6. CbFibersOK'
  <2>1. \A u \in Threads \ {t} : CbFiberOK(u)'
    BY <1>0, <1>1, <1>2, <1>f, Facts
    DEF BeforeClash, CbFibersOK, CbFiberOK, OnFiber
  <2>2. CbFiberOK(t)'
    BY <1>0, <1>2, <1>d DEF CbFiberOK, OnFiber
  <2> QED
    BY <1>1, <1>2, <1>f, <2>1, <2>2 DEF BeforeClash, CbFibersOK
<1>7. \A g \in Fibers : /\ Queued(g)' <=> Queued(g)
                        /\ Taken(g)' <=> Taken(g)
                        /\ HasWakeup(g)' <=> HasWakeup(g)
                        /\ OneTaker(g) => OneTaker(g)'
  <2>1. \A g \in Fibers : Queued(g)' <=> Queued(g)
    BY <1>0, SameEntries DEF Queued
  <2>2. \A g \in Fibers : Taken(g)' <=> Taken(g)
    BY <1>0, <1>1, <1>2, <1>f, Facts DEF Taken
  <2>3. \A g \in Fibers : OneTaker(g) => OneTaker(g)'
    BY <1>0, <1>1, <1>2 DEF OneTaker
  <2> QED
    BY <1>u, <2>1, <2>2, <2>3 DEF HasWakeup
<1>8. WakeupsOK'
  <2>1. ASSUME NEW g \in Fibers
        PROVE  SingleWakeup(g)' /\ WakeupState(g)' /\ WakeupComes(g)'
    <3>1. SingleWakeup(g) /\ WakeupState(g) /\ WakeupComes(g)
      BY DEF BeforeClash, WakeupsOK
    <3>2. SingleWakeup(g)'
      BY <1>u, <1>7, <3>1 DEF SingleWakeup
    <3>3. CASE g = f
      <4>1. \A u \in Threads : (pc'[u] = "fiber" /\ cur'[u] = f) => at'[u] # "yield"
        BY <1>0, <1>1, <1>2
      <4>2. ~HasWakeup(f)' /\ ~Taken(f)'
        BY <1>f, <1>7 DEF HasWakeup
      <4> QED
        BY <1>2, <3>2, <3>3, <4>1, <4>2
        DEF WakeupState, WakeupComes, Suspended
    <3>4. CASE g # f
      <4>1. state'[g] = state[g] /\ m_cb'[g] = m_cb[g]
        BY <1>2, <3>4
      <4>2. \A u \in Threads : (pc'[u] = "fiber" /\ cur'[u] = g) =>
                 pc[u] = "fiber" /\ cur[u] = g /\ at'[u] = at[u]
        BY <1>1, <1>2, <3>4
      <4> QED
        BY <1>7, <3>1, <3>2, <4>1, <4>2
        DEF WakeupState, WakeupComes, Suspended
    <3> QED
      BY <3>3, <3>4
  <2> QED
    BY <2>1 DEF WakeupsOK
<1>9. ContextsOK'
  <2>1. ASSUME NEW g \in Fibers, g # f PROVE OnStack(g)' <=> OnStack(g)
    <3>1. cur[t] = NoFiber
      BY <1>0 DEF BeforeClash, StacksOK, StackOK, OnFiber
    <3>2. g # NoFiber
      BY Facts
    <3>3. \A u \in Threads : cur'[u] = g <=> cur[u] = g
      BY <1>1, <1>2, <2>1, <3>1, <3>2
    <3> QED
      BY <3>3 DEF OnStack
  <2>2. ContextOK(f)'
    BY <1>2 DEF ContextOK, Suspended
  <2>3. ASSUME NEW g \in Fibers, g # f PROVE ContextOK(g)'
    <3>1. ContextOK(g)
      BY DEF BeforeClash, ContextsOK
    <3> QED
      BY <1>2, <2>1, <2>3, <3>1 DEF ContextOK, Suspended
  <2> QED
    BY <2>2, <2>3 DEF ContextsOK
<1>10. TasksOK'
  <2>1. \A c \in Tasks : /\ CbQueued(c)' <=> CbQueued(c)
                         /\ c # d => (CbTaken(c)' <=> CbTaken(c))
                         /\ CbTaken(c)' => CbTaken(c)
    BY <1>0, <1>1, <1>2, <1>d, SameEntries DEF CbQueued, CbTaken
  <2>2. \A g \in Fibers : state'[g] = "INIT" <=> state[g] = "INIT"
    BY <1>2, <1>f
  <2>3. \A g \in Fibers : state[g] = "INIT" => m_cb'[g] = m_cb[g]
    BY <1>2, <1>f
  <2>4. \A g \in Fibers : Entered(g)' => (Entered(g) /\ m_cb'[g] = m_cb[g]) \/ g = f
    BY <1>2 DEF Entered
  <2>5. ASSUME NEW c \in Tasks PROVE TaskOK(c)'
    <3>1. TaskOK(c)
      BY DEF BeforeClash, TasksOK
    <3>2. OnePlace(c)'
      BY <1>0, <1>1, <1>2, <2>1, <2>2, <2>3, <3>1 DEF TaskOK, OnePlace
    <3>3. CASE c # d
      <4>1. begun'[c] = begun[c]
        BY <1>u, <3>3, Facts
      <4>2. Waits(c)' <=> Waits(c)
        BY <2>1, <2>2, <2>3, <3>3 DEF Waits
      <4>3. \A g \in Fibers : (Entered(g)' /\ m_cb'[g] = c) => (Entered(g) /\ m_cb[g] = c)
        BY <1>2, <2>4, <3>3
      <4> QED
        BY <1>u, <3>1, <3>2, <4>1, <4>2, <4>3 DEF TaskOK, OneFiber
    <3>4. CASE c = d
      <4>1. CbTaken(c) /\ Waits(c) /\ begun[c] = 0 /\ begun'[c] = 1
        BY <1>0, <1>d, <1>u, <3>1, <3>4, Facts DEF TaskOK, Waits, CbTaken
      <4>2. ~CbTaken(c)'
        BY <1>0, <1>1, <1>2, <1>d, <3>1, <3>4 DEF CbTaken, TaskOK, OnePlace
      <4>3. ~Waits(c)'
        BY <2>1, <2>2, <2>3, <3>1, <4>1, <4>2 DEF TaskOK, OnePlace, Waits
      <4>4. \A g \in Fibers : (Entered(g)' /\ m_cb'[g] = c) => g = f
        BY <2>4, <3>1, <4>1 DEF TaskOK
      <4> QED
        BY <1>u, <3>1, <3>2, <4>1, <4>3, <4>4 DEF TaskOK, OneFiber
    <3> QED
      BY <3>3, <3>4
  <2> QED
    BY <2>5 DEF TasksOK
<1> QED
  BY <1>4, <1>5, <1>6, <1>8, <1>9, <1>10 DEF BeforeClash

(* The task hands its fiber to a source of wake-ups.                       *)
LEMMA RegisterStep ==
  ASSUME TypeInv, BeforeClash, NEW t \in Threads, Register(t)
  PROVE  BeforeClash'
<1>f. PICK f \in Fibers : cur[t] = f
  BY ExecutingFacts DEF Register, Executing
<1>0. /\ UNCHANGED <<m_fibers, pc, ft, cb_fiber, cur, state, ctx, m_cb,
                     early, late, begun, ended>>
      /\ pc[t] = "fiber" /\ at[t] # "yield"
      /\ Kind[m_cb[f]] = "park"
      /\ waiting' = [waiting EXCEPT ![f] = @ + 1]
      /\ at' = [at EXCEPT ![t] = "yield"]
  BY <1>f DEF Register, Executing, AddRegistration, Step
<1>1. /\ ~HasWakeup(f) /\ state[f] = "EXEC" /\ waiting[f] = 0
      /\ \A u \in Threads \ {t} : cur[u] # f
  BY <1>f, <1>0, ExecutingFacts, Facts DEF HasWakeup
<1>2. /\ QueueOK' /\ TasksOK'
      /\ \A g \in Fibers : /\ Queued(g)' <=> Queued(g)
                           /\ Taken(g)' <=> Taken(g)
                           /\ OneTaker(g)' <=> OneTaker(g)
  BY <1>0, SamePlaces
<1>3. HeldOK' /\ CbFibersOK' /\ ContextsOK'
  BY <1>0, Frame
<1>4. StacksOK'
  BY <1>0, Facts DEF BeforeClash, StacksOK, StackOK
<1>5. /\ waiting'[f] = 1 /\ at'[t] = "yield"
      /\ \A g \in Fibers \ {f} : waiting'[g] = waiting[g]
      /\ \A u \in Threads \ {t} : at'[u] = at[u]
  BY <1>0, <1>1, Facts
<1>6. WakeupsOK'
  <2>1. ASSUME NEW g \in Fibers
        PROVE  SingleWakeup(g)' /\ WakeupState(g)' /\ WakeupComes(g)'
    <3>1. SingleWakeup(g) /\ WakeupState(g) /\ WakeupComes(g)
      BY DEF BeforeClash, WakeupsOK
    <3>2. CASE g = f
      BY <1>f, <1>0, <1>1, <1>2, <1>5, <3>1, <3>2
      DEF SingleWakeup, WakeupState, WakeupComes, HasWakeup, Suspended
    <3>3. CASE g # f
      BY <1>f, <1>0, <1>2, <1>5, <3>1, <3>3
      DEF SingleWakeup, WakeupState, WakeupComes, HasWakeup, Suspended
    <3> QED
      BY <3>2, <3>3
  <2> QED
    BY <2>1 DEF WakeupsOK
<1> QED
  BY <1>2, <1>3, <1>4, <1>6 DEF BeforeClash

(* The fiber publishes the state it yields to.                             *)
LEMMA YieldStep ==
  ASSUME TypeInv, BeforeClash, NEW t \in Threads,
         YieldRegistered(t) \/ YieldUnregistered(t)
  PROVE  BeforeClash'
<1>f. PICK f \in Fibers, st \in {"HOLD", "READY"} :
        /\ cur[t] = f /\ pc[t] = "fiber"
        /\ YieldTo(t, st, "resumed")
        /\ at[t] = "yield" \/ Kind[m_cb[f]] = "ready"
  BY ExecutingFacts DEF YieldRegistered, YieldUnregistered, Executing
<1>0. /\ UNCHANGED <<m_fibers, ft, cb_fiber, cur, ctx, m_cb, waiting, early,
                     late, begun, ended>>
      /\ pc' = [pc EXCEPT ![t] = "swapOut"]
      /\ at' = [at EXCEPT ![t] = "resumed"]
      /\ state' = [state EXCEPT ![f] = st]
  BY <1>f DEF YieldTo, YieldRegistered, YieldUnregistered
<1>1. /\ state[f] = "EXEC" /\ m_cb[f] \in Tasks
      /\ HasWakeup(f) <=> at[t] = "yield"
      /\ \A u \in Threads \ {t} : cur[u] # f
  BY <1>f, ExecutingFacts
<1>2. /\ pc'[t] = "swapOut" /\ at'[t] = "resumed"
      /\ state'[f] \in {"HOLD", "READY"}
      /\ \A g \in Fibers \ {f} : state'[g] = state[g]
      /\ \A u \in Threads \ {t} : pc'[u] = pc[u] /\ at'[u] = at[u]
  BY <1>0, <1>f, Facts
<1>3. /\ QueueOK'
      /\ \A g \in Fibers : /\ SingleWakeup(g)'
                           /\ HasWakeup(g)' <=> HasWakeup(g)
                           /\ Taken(g)' <=> Taken(g)
      /\ \A c : /\ CbQueued(c)' <=> CbQueued(c)
                /\ CbTaken(c)' <=> CbTaken(c)
  BY <1>0, <1>f, <1>2, SamePlaces
<1>4. HeldOK' /\ StacksOK'
  BY <1>0, <1>1, <1>2, <1>f, Facts
  DEF BeforeClash, HeldOK, Holding, StacksOK, StackOK, OnFiber
<1>5. CbFibersOK'
  <2>1. ASSUME NEW u \in Threads PROVE CbFiberOK(u)'
    BY <1>0, <1>1, <1>2, <1>f, Facts
    DEF BeforeClash, CbFibersOK, CbFiberOK, OnFiber
  <2> QED
    BY <1>0, <2>1 DEF BeforeClash, CbFibersOK
<1>6. WakeupsOK'
  <2>1. ASSUME NEW g \in Fibers
        PROVE  SingleWakeup(g)' /\ WakeupState(g)' /\ WakeupComes(g)'
    <3>1. WakeupState(g) /\ WakeupComes(g)
      BY DEF BeforeClash, WakeupsOK
    <3>2. CASE g = f
      <4>1. Kind[m_cb[f]] = "park" => HasWakeup(f)
        BY <1>f, <1>1
      <4> QED
        BY <1>0, <1>1, <1>2, <1>3, <1>f, <3>2, <4>1
        DEF WakeupState, WakeupComes, Suspended
    <3>3. CASE g # f
      BY <1>0, <1>2, <1>3, <3>1, <3>3
      DEF WakeupState, WakeupComes, Suspended
    <3> QED
      BY <1>3, <3>2, <3>3
  <2> QED
    BY <2>1 DEF WakeupsOK
<1>7. ContextsOK'
  <2>1. ASSUME NEW g \in Fibers PROVE ContextOK(g)'
    <3>1. ContextOK(g) /\ (OnStack(g)' <=> OnStack(g))
      BY <1>0 DEF BeforeClash, ContextsOK, OnStack
    <3>2. CASE g = f
      BY <1>0, <1>1, <1>2, <1>f, <3>1, <3>2 DEF ContextOK, OnStack
    <3>3. CASE g # f
      BY <1>0, <1>2, <3>1, <3>3 DEF ContextOK, Suspended
    <3> QED
      BY <3>2, <3>3
  <2> QED
    BY <2>1 DEF ContextsOK
<1>8. TasksOK'
  <2>1. \A g \in Fibers : /\ state'[g] = "INIT" <=> state[g] = "INIT"
                          /\ Entered(g)' <=> Entered(g)
    BY <1>1, <1>2 DEF Entered
  <2>2. ASSUME NEW c \in Tasks PROVE TaskOK(c)'
    <3>1. TaskOK(c)
      BY DEF BeforeClash, TasksOK
    <3>2. OnePlace(c)' /\ (Waits(c)' <=> Waits(c))
      BY <1>0, <1>2, <1>f, <1>3, <2>1, <3>1 DEF TaskOK, OnePlace, Waits
    <3> QED
      BY <1>0, <2>1, <3>1, <3>2 DEF TaskOK, OneFiber
  <2> QED
    BY <2>2 DEF TasksOK
<1> QED
  BY <1>3, <1>4, <1>5, <1>6, <1>7, <1>8 DEF BeforeClash

(* The callback returned or threw.                                         *)
LEMMA FinishStep ==
  ASSUME TypeInv, BeforeClash, NEW t \in Threads, Finish(t)
  PROVE  BeforeClash'
<1>f. PICK f \in Fibers, st \in {"TERM", "EXECPT"} :
        /\ cur[t] = f /\ pc[t] = "fiber"
        /\ EndTask(t, st)
        /\ at[t] # "yield"
  BY ExecutingFacts DEF Finish, Executing
<1>d. PICK d \in Tasks : m_cb[f] = d
  BY <1>f, ExecutingFacts
<1>0. /\ UNCHANGED <<m_fibers, ft, cb_fiber, cur, at, ctx, m_cb, waiting,
                     early, late, begun>>
      /\ pc' = [pc EXCEPT ![t] = "exit"]
      /\ state' = [state EXCEPT ![f] = st]
      /\ ended' = ended \cup {d}
  BY <1>f, <1>d DEF EndTask, Finish
<1>1. /\ state[f] = "EXEC" /\ ~HasWakeup(f)
      /\ \A u \in Threads \ {t} : cur[u] # f
  BY <1>f, ExecutingFacts
<1>2. /\ pc'[t] = "exit" /\ state'[f] \in {"TERM", "EXECPT"}
      /\ \A g \in Fibers \ {f} : state'[g] = state[g]
      /\ \A u \in Threads \ {t} : pc'[u] = pc[u]
  BY <1>0, <1>f, Facts
<1>3. /\ QueueOK'
      /\ \A g \in Fibers : /\ SingleWakeup(g)'
                           /\ HasWakeup(g)' <=> HasWakeup(g)
                           /\ Taken(g)' <=> Taken(g)
      /\ \A c : /\ CbQueued(c)' <=> CbQueued(c)
                /\ CbTaken(c)' <=> CbTaken(c)
  BY <1>0, <1>f, <1>2, SamePlaces
<1>4. HeldOK' /\ StacksOK'
  BY <1>0, <1>1, <1>2, <1>f, Facts
  DEF BeforeClash, HeldOK, Holding, StacksOK, StackOK, OnFiber
<1>5. CbFibersOK'
  <2>1. ASSUME NEW u \in Threads PROVE CbFiberOK(u)'
    BY <1>0, <1>1, <1>2, <1>f, Facts
    DEF BeforeClash, CbFibersOK, CbFiberOK, OnFiber
  <2> QED
    BY <1>0, <2>1 DEF BeforeClash, CbFibersOK
<1>6. WakeupsOK'
  <2>1. ASSUME NEW g \in Fibers
        PROVE  SingleWakeup(g)' /\ WakeupState(g)' /\ WakeupComes(g)'
    <3>1. WakeupState(g) /\ WakeupComes(g)
      BY DEF BeforeClash, WakeupsOK
    <3>2. CASE g = f
      <4>1. ~HasWakeup(f)' /\ ~Taken(f)'
        BY <1>1, <1>3 DEF HasWakeup
      <4> QED
        BY <1>0, <1>1, <1>2, <1>3, <1>f, <3>2, <4>1
        DEF WakeupState, WakeupComes, Suspended
    <3>3. CASE g # f
      BY <1>0, <1>2, <1>3, <3>1, <3>3
      DEF WakeupState, WakeupComes, Suspended
    <3> QED
      BY <1>3, <3>2, <3>3
  <2> QED
    BY <2>1 DEF WakeupsOK
<1>7. ContextsOK'
  BY <1>0, <1>1, <1>2
  DEF BeforeClash, ContextsOK, ContextOK, Suspended, OnStack
<1>8. TasksOK'
  <2>1. \A g \in Fibers : /\ state'[g] = "INIT" <=> state[g] = "INIT"
                          /\ Entered(g)' <=> Entered(g) /\ g # f
    BY <1>1, <1>2 DEF Entered
  <2>2. ASSUME NEW c \in Tasks PROVE TaskOK(c)'
    <3>1. TaskOK(c)
      BY DEF BeforeClash, TasksOK
    <3>2. OnePlace(c)' /\ (Waits(c)' <=> Waits(c))
      BY <1>0, <1>2, <1>f, <1>3, <2>1, <3>1 DEF TaskOK, OnePlace, Waits
    <3>3. CASE c = d
      <4>1. begun[c] = 1 /\ Entered(f) /\ m_cb[f] = c
        BY <1>1, <1>d, <3>1, <3>3 DEF TaskOK, Entered
      <4>2. \A g \in Fibers : ~(Entered(g)' /\ m_cb'[g] = c)
        BY <1>0, <2>1, <3>1, <4>1 DEF TaskOK, OneFiber
      <4> QED
        BY <1>0, <3>1, <3>2, <4>1, <4>2 DEF TaskOK, OneFiber
    <3>4. CASE c # d
      BY <1>0, <2>1, <3>1, <3>2, <3>4 DEF TaskOK, OneFiber
    <3> QED
      BY <3>3, <3>4
  <2> QED
    BY <2>2 DEF TasksOK
<1> QED
  BY <1>3, <1>4, <1>5, <1>6, <1>7, <1>8 DEF BeforeClash

-----------------------------------------------------------------------------
(* The invariant.                                                          *)

LEMMA InvariantInit == Init => IInv
<1> SUFFICES ASSUME Init PROVE IInv
  OBVIOUS
<1>1. TypeInv
  BY TypeInit
<1>2. /\ Entries = {} /\ DOMAIN m_fibers = {}
      /\ \A t \in Threads : /\ pc[t] = "scan" /\ cur[t] = NoFiber
                            /\ cb_fiber[t] = NoFiber
      /\ \A f \in Fibers : state[f] = "FREE" /\ waiting[f] = 0
      /\ \A c \in Tasks : begun[c] = 0
      /\ early = {} /\ late = {} /\ ended = {}
  BY DEF Init, SchedulerInit, Entries, Range
<1>3. QueueOK /\ HeldOK /\ StacksOK /\ CbFibersOK /\ ContextsOK
  BY <1>2
  DEF QueueOK, HeldOK, Holding, StacksOK, StackOK, OnFiber, CbFibersOK,
      CbFiberOK, ContextsOK, ContextOK, Suspended
<1>4. WakeupsOK
  BY <1>2
  DEF WakeupsOK, SingleWakeup, OneTaker, WakeupState, WakeupComes, HasWakeup,
      Queued, Taken, Suspended
<1>5. TasksOK
  BY <1>2
  DEF TasksOK, TaskOK, OnePlace, OneFiber, Waits, CbQueued, CbTaken, Entered
<1> QED
  BY <1>1, <1>3, <1>4, <1>5 DEF IInv, BeforeClash

LEMMA InvariantStep == IInv /\ [Next]_vars => IInv'
<1> SUFFICES ASSUME IInv, [Next]_vars PROVE IInv'
  OBVIOUS
<1>1. TypeInv /\ TypeInv'
  BY LoadedStep, TypeStep DEF IInv, TypeInv
<1>2. clash => clash'
  BY DEF Next, Submit, ScheduleCallback, ScheduleNewFiber, Wake, ThreadLoop,
         Loop, Enter, ScanTake, ScanNothing, Back, Idle, SwapOut, LeaveStack,
         ResumeFiber, StartCallback, SwitchTo, TaskStep, Register,
         YieldRegistered, YieldUnregistered, Finish, Step, YieldTo, EndTask,
         StopStep, Stop, vars, schedVars
<1> SUFFICES ASSUME ~clash' PROVE BeforeClash'
  BY <1>1 DEF IInv
<1>3. BeforeClash
  BY <1>2 DEF IInv
<1>4. ASSUME NEW c \in Tasks, Submit(c) PROVE BeforeClash'
  BY <1>1, <1>3, <1>4, SubmitCallbackStep, SubmitFiberStep DEF Submit
<1>5. ASSUME NEW f \in Fibers, Wake(f) PROVE BeforeClash'
  BY <1>1, <1>3, <1>5, WakeStep
<1>6. ASSUME NEW t \in Threads, ThreadLoop(t) PROVE BeforeClash'
  BY <1>1, <1>3, <1>6, ScanTakeStep, IdleStep, BackStep, LeaveStep,
     ResumeStep, CallbackStep
  DEF ThreadLoop, Loop, Enter
<1>7. ASSUME NEW t \in Threads, TaskStep(t) PROVE BeforeClash'
  BY <1>1, <1>3, <1>7, RegisterStep, YieldStep, FinishStep DEF TaskStep
<1>8. CASE StopStep \/ UNCHANGED vars
  <2>1. /\ UNCHANGED <<m_fibers, pc, ft, cb_fiber, cur, at, state, ctx, m_cb>>
        /\ UNCHANGED <<waiting, early, late, begun, ended>>
    BY <1>8 DEF StopStep, Stop, vars, schedVars
  <2>2. /\ QueueOK' /\ TasksOK'
        /\ \A f \in Fibers : /\ SingleWakeup(f)'
                             /\ HasWakeup(f)' <=> HasWakeup(f)
                             /\ Taken(f)' <=> Taken(f)
    BY <1>3, <2>1, SamePlaces
  <2>3. WakeupsOK'
    BY <1>3, <2>1, <2>2
    DEF BeforeClash, WakeupsOK, WakeupState, WakeupComes, Suspended
  <2> QED
    BY <1>3, <2>1, <2>2, <2>3, Frame DEF BeforeClash
<1> QED
  BY <1>4, <1>5, <1>6, <1>7, <1>8 DEF Next

(* The inductive invariant holds in every state of every behaviour.        *)
THEOREM Invariant == Spec => []IInv
  BY InvariantInit, InvariantStep, PTL DEF Spec

-----------------------------------------------------------------------------
(* What follows from the invariant.                                        *)

(* A fiber has at most one wake-up under way: no two threads can be told   *)
(* to resume it, and nobody resumes it after it has ended.                 *)
THEOREM AtMostOneWakeup == Spec => []OneWakeup
<1>1. IInv => OneWakeup
  <2> SUFFICES ASSUME IInv, ~clash, NEW f \in Fibers
               PROVE  /\ \A i, j \in DOMAIN m_fibers :
                           (m_fibers[i].fiber = f /\ m_fibers[j].fiber = f) => i = j
                      /\ SingleWakeup(f)
    BY DEF OneWakeup, SingleWakeup, OneTaker
  <2>1. QueueOK /\ SingleWakeup(f) /\ f # NoFiber
    BY SchedulerAssumption DEF IInv, BeforeClash, WakeupsOK
  <2> QED
    BY <2>1 DEF QueueOK, Twins
<1> QED
  BY <1>1, Invariant, PTL

(* A fiber that registered and yielded is registered, queued or taken      *)
(* until it is resumed.                                                    *)
THEOREM WakeupNeverLost == Spec => []NoLostWakeup
<1>1. IInv => NoLostWakeup
  BY DEF IInv, BeforeClash, WakeupsOK, WakeupComes, HasWakeup, NoLostWakeup
<1> QED
  BY <1>1, Invariant, PTL

(* The callback of a task is entered once at most.                         *)
THEOREM CallbackEnteredOnce == Spec => []EnteredOnce
<1>1. IInv => EnteredOnce
  BY DEF IInv, BeforeClash, TasksOK, TaskOK, EnteredOnce
<1> QED
  BY <1>1, Invariant, PTL

(* No thread executes a task that has ended or takes an entry for its      *)
(* fiber.                                                                  *)
THEOREM NoStepAfterEnd == Spec => []NothingAfterEnd
<1>1. IInv => NothingAfterEnd
  <2> SUFFICES ASSUME IInv, ~clash, NEW t \in Threads
               PROVE  /\ pc[t] = "fiber" => m_cb[cur[t]] \notin ended
                      /\ (pc[t] = "take" /\ ft[t].fiber # NoFiber) =>
                           m_cb[ft[t].fiber] \notin ended
    BY DEF NothingAfterEnd
  <2>0. TypeInv /\ BeforeClash /\ TasksOK
    BY DEF IInv, BeforeClash
  <2>1. ASSUME pc[t] = "fiber" PROVE m_cb[cur[t]] \notin ended
    BY <2>0, <2>1, ExecutingFacts DEF TasksOK, TaskOK, Entered
  <2>2. ASSUME pc[t] = "take", ft[t].fiber # NoFiber
        PROVE  m_cb[ft[t].fiber] \notin ended
    <3> DEFINE f == ft[t].fiber
    <3>1. f \in Fibers /\ state[f] \in {"INIT", "HOLD", "READY"}
      BY <2>0, <2>2, TakenFacts
    <3>2. m_cb[f] \in Tasks
      BY <2>0, <3>1 DEF BeforeClash, ContextsOK, ContextOK
    <3>3. CASE state[f] = "INIT"
      BY <2>0, <3>1, <3>2, <3>3 DEF TasksOK, TaskOK, Waits
    <3>4. CASE state[f] # "INIT"
      BY <2>0, <3>1, <3>2, <3>4 DEF TasksOK, TaskOK, Entered
    <3> QED
      BY <3>3, <3>4
  <2> QED
    BY <2>1, <2>2
<1> QED
  BY <1>1, Invariant, PTL

(* No SEAICE_ASSERT between the scan and the switch fails.                 *)
THEOREM AssertionsNeverFail == Spec => []NoAssertionFails
<1>1. IInv => NoAssertionFails
  <2> SUFFICES ASSUME IInv, ~clash, NEW t \in Threads, pc[t] = "take"
               PROVE  /\ ft[t].fiber # NoFiber =>
                           state[ft[t].fiber] \notin {"EXEC", "EXECPT"}
                      /\ (ft[t].cb # NoTask /\ cb_fiber[t] # NoFiber) =>
                           state[cb_fiber[t]] \in {"TERM", "EXECPT", "INIT"}
    BY DEF NoAssertionFails, AssertionsHold
  <2>0. TypeInv /\ BeforeClash /\ CbFiberOK(t)
    BY DEF IInv, BeforeClash, CbFibersOK
  <2>1. ft[t].fiber # NoFiber => state[ft[t].fiber] \notin {"EXEC", "EXECPT"}
    BY <2>0, TakenFacts
  <2>2. cb_fiber[t] # NoFiber => state[cb_fiber[t]] = "TERM"
    BY <2>0 DEF CbFiberOK, OnFiber
  <2> QED
    BY <2>1, <2>2
<1> QED
  BY <1>1, Invariant, PTL

-----------------------------------------------------------------------------
(* The life cycle of the tasks.                                            *)

(* A fiber in state EXEC is executed by a thread, clash or not.            *)
ExecOK ==
  \A f \in Fibers : state[f] = "EXEC" =>
    \E t \in Threads : pc[t] = "fiber" /\ cur[t] = f

LEMMA ExecStep == TypeInv /\ ExecOK /\ [Next]_vars => ExecOK'
<1> SUFFICES ASSUME TypeInv, ExecOK, [Next]_vars PROVE ExecOK'
  OBVIOUS
<1>0. /\ pc \in [Threads -> Where]
      /\ cur \in [Threads -> Fibers \cup {NoFiber}]
      /\ state \in [Fibers -> FiberState]
  BY Facts
<1>1. ASSUME UNCHANGED <<pc, cur>>,
             \A f \in Fibers : state'[f] = "EXEC" => state[f] = "EXEC"
      PROVE  ExecOK'
  BY <1>1 DEF ExecOK
<1>2. ASSUME NEW t \in Threads, pc[t] # "fiber", UNCHANGED state,
             \A u \in Threads \ {t} : pc'[u] = pc[u] /\ cur'[u] = cur[u]
      PROVE  ExecOK'
  BY <1>2 DEF ExecOK
<1>3. ASSUME NEW t \in Threads, pc[t] = "take", NEW f \in Fibers,
             NEW s, SwitchTo(t, f, s)
      PROVE  ExecOK'
  BY <1>0, <1>3 DEF ExecOK, SwitchTo
<1>4. ASSUME NEW t \in Threads, pc[t] = "fiber", NEW st, st # "EXEC",
             UNCHANGED cur, state' = [state EXCEPT ![cur[t]] = st],
             \A u \in Threads \ {t} : pc'[u] = pc[u]
      PROVE  ExecOK'
  BY <1>0, <1>4 DEF ExecOK
<1>5. CASE (\E c \in Tasks : Submit(c)) \/ (\E f \in Fibers : Wake(f))
           \/ StopStep \/ UNCHANGED vars \/ \E t \in Threads : Register(t)
  BY <1>0, <1>1, <1>5
  DEF Submit, ScheduleCallback, ScheduleNewFiber, Wake, StopStep, Stop, Register,
      Step, vars, schedVars
<1>6. ASSUME NEW t \in Threads, ThreadLoop(t) PROVE ExecOK'
  <2>1. CASE Loop(t)
    <3>1. pc[t] # "fiber" /\ UNCHANGED state
      BY <2>1
      DEF Loop, ScanTake, ScanNothing, Back, Idle, SwapOut, LeaveStack
    <3>2. \A u \in Threads \ {t} : pc'[u] = pc[u] /\ cur'[u] = cur[u]
      BY <1>0, <2>1
      DEF Loop, ScanTake, ScanNothing, Back, Idle, SwapOut, LeaveStack, Continue
    <3> QED
      BY <1>2, <3>1, <3>2
  <2>2. CASE ResumeFiber(t)
    <3>1. pc[t] = "take" /\ ft[t].fiber \in Fibers
      BY <2>2, Facts DEF ResumeFiber, Entry
    <3>2. CASE Dropped(ft[t].fiber)
      <4>1. UNCHANGED <<cur, state>> /\ \A u \in Threads \ {t} : pc'[u] = pc[u]
        BY <1>0, <2>2, <3>2 DEF ResumeFiber, Continue
      <4> QED
        BY <1>2, <3>1, <4>1
    <3>3. CASE ~Dropped(ft[t].fiber)
      <4>1. SwitchTo(t, ft[t].fiber, ctx[ft[t].fiber])
        BY <2>2, <3>3 DEF ResumeFiber
      <4> QED
        BY <1>3, <3>1, <4>1
    <3> QED
      BY <3>2, <3>3
  <2>3. CASE StartCallback(t)
    BY <1>3, <2>3 DEF StartCallback
  <2> QED
    BY <1>6, <2>1, <2>2, <2>3 DEF ThreadLoop, Enter
<1>7. ASSUME NEW t \in Threads,
             YieldRegistered(t) \/ YieldUnregistered(t) \/ Finish(t)
      PROVE  ExecOK'
  <2>1. PICK st \in {"HOLD", "READY", "TERM", "EXECPT"} :
          state' = [state EXCEPT ![cur[t]] = st]
    BY <1>7 DEF YieldRegistered, YieldUnregistered, Finish, YieldTo, EndTask
  <2>2. /\ pc[t] = "fiber" /\ UNCHANGED cur
        /\ \A u \in Threads \ {t} : pc'[u] = pc[u]
    BY <1>0, <1>7
    DEF YieldRegistered, YieldUnregistered, Finish, YieldTo, EndTask, Executing
  <2> QED
    BY <1>4, <2>1, <2>2
<1> QED
  BY <1>5, <1>6, <1>7 DEF Next, TaskStep

LEMMA ExecutedHaveThread == Spec => []ExecOK
<1>1. Init => ExecOK
  BY DEF Init, SchedulerInit, ExecOK
<1>2. IInv => TypeInv
  BY DEF IInv
<1> QED
  BY <1>1, <1>2, ExecStep, Invariant, PTL DEF Spec

(* The status of a task is that of its fiber once it is entered ...        *)
StatusEntered ==
  \A f \in Fibers : Entered(f) =>
    /\ m_cb[f] \in Tasks
    /\ StatusOf(m_cb[f]) = IF state[f] = "EXEC" THEN "running"
                           ELSE IF waiting[f] > 0 THEN "suspended"
                           ELSE "runnable"

(* ... "queued" before that, once it is submitted, and "ended" afterwards. *)
StatusWaiting ==
  \A c \in Tasks :
    begun[c] = 0 /\ c \in early \cup late => StatusOf(c) = "queued"

StatusOutside ==
  \A c \in Tasks :
    /\ c \notin early \cup late => StatusOf(c) = "new"
    /\ c \in ended => StatusOf(c) = "ended"

LEMMA Statuses ==
  TypeInv /\ BeforeClash => StatusEntered /\ StatusWaiting /\ StatusOutside
<1> SUFFICES ASSUME TypeInv, BeforeClash
             PROVE  StatusEntered /\ StatusWaiting /\ StatusOutside
  OBVIOUS
<1>1. ASSUME NEW c \in Tasks, Executed(c)
      PROVE  begun[c] = 1 /\ c \notin ended
  BY <1>1 DEF Executed, BeforeClash, TasksOK, TaskOK, Entered
<1>2. ASSUME NEW c \in Tasks, c \in ended \/ c \in early \cup late \/ begun[c] = 1
      PROVE  /\ c \in ended => begun[c] = 1
             /\ begun[c] = 1 => c \in early \cup late
  BY DEF BeforeClash, TasksOK, TaskOK
<1>3. StatusWaiting
  BY <1>1, <1>2 DEF StatusWaiting, StatusOf
<1>4. StatusOutside
  BY <1>1, <1>2 DEF StatusOutside, StatusOf
<1>5. ASSUME NEW f \in Fibers, Entered(f)
      PROVE  /\ m_cb[f] \in Tasks
             /\ StatusOf(m_cb[f]) = IF state[f] = "EXEC" THEN "running"
                                    ELSE IF waiting[f] > 0 THEN "suspended"
                                    ELSE "runnable"
  <2>c. PICK c : c = m_cb[f]
    OBVIOUS
  <2>0. c \in Tasks
    BY <1>5, <2>c DEF BeforeClash, ContextsOK, ContextOK, Entered
  <2>1. begun[c] = 1 /\ c \notin ended /\ c \in early \cup late
    BY <1>2, <1>5, <2>c, <2>0 DEF BeforeClash, TasksOK, TaskOK
  <2>2. \A g \in Fibers : Entered(g) /\ m_cb[g] = c => g = f
    BY <1>5, <2>c, <2>0 DEF BeforeClash, TasksOK, TaskOK, OneFiber
  <2>3. Executed(c) <=> state[f] = "EXEC"
    BY <2>c, <2>2 DEF Executed, Entered
  <2>4. Registered(c) <=> waiting[f] > 0
    <3>1. ASSUME NEW g \in Fibers, m_cb[g] = c, waiting[g] > 0 PROVE Entered(g)
      <4>1. state[g] \in {"INIT", "HOLD", "READY", "EXEC"}
        BY <3>1 DEF BeforeClash, WakeupsOK, WakeupState, HasWakeup
      <4>2. state[g] # "INIT"
        BY <2>0, <2>1, <3>1 DEF BeforeClash, TasksOK, TaskOK, Waits
      <4> QED
        BY <4>1, <4>2 DEF Entered
    <3> QED
      BY <2>c, <2>2, <3>1 DEF Registered
  <2> QED
    BY <2>c, <2>0, <2>1, <2>3, <2>4 DEF StatusOf
<1> QED
  BY <1>3, <1>4, <1>5 DEF StatusEntered

(* What a step does to one fiber leaves the status of the other tasks.     *)
LEMMA OtherStatus ==
  ASSUME NEW f \in Fibers, NEW d \in Tasks,
         \A g \in Fibers \ {f} :
           /\ m_cb'[g] = m_cb[g]
           /\ state'[g] = state[g]
           /\ waiting'[g] = waiting[g],
         m_cb[f] = d => state[f] # "EXEC" /\ ~(waiting[f] > 0),
         m_cb'[f] = d => state'[f] # "EXEC" /\ ~(waiting'[f] > 0),
         (d \in early \cup late)' <=> (d \in early \cup late),
         (d \in ended)' <=> (d \in ended),
         begun'[d] = begun[d]
  PROVE  StatusOf(d)' = StatusOf(d)
<1>1. Executed(d)' <=> Executed(d)
  BY DEF Executed
<1>2. Registered(d)' <=> Registered(d)
  BY DEF Registered
<1> QED
  BY <1>1, <1>2 DEF StatusOf

LEMMA SameStatus ==
  ASSUME UNCHANGED <<state, m_cb, waiting, early, late, begun, ended>>,
         NEW d \in Tasks
  PROVE  StatusOf(d)' = StatusOf(d)
  BY DEF StatusOf, Executed, Registered

StatusMap == [c \in Tasks |-> StatusOf(c)]

(* One task changes its status, the others keep theirs.                    *)
Turns(c, from, to) ==
  /\ c \in Tasks
  /\ StatusOf(c) = from
  /\ StatusOf(c)' = to
  /\ \A d \in Tasks \ {c} : StatusOf(d)' = StatusOf(d)

Stutters == \A d \in Tasks : StatusOf(d)' = StatusOf(d)

LEMMA TurnsBecome ==
  ASSUME NEW c, NEW from, NEW to, Turns(c, from, to)
  PROVE  StatusMap[c] = from /\ StatusMap' = [StatusMap EXCEPT ![c] = to]
<1>1. StatusMap[c] = from /\ c \in Tasks
  BY DEF Turns, StatusMap
<1>2. StatusMap' = [d \in Tasks |-> StatusOf(d)']
  BY DEF StatusMap
<1>3. \A d \in Tasks : StatusOf(d)' = IF d = c THEN to ELSE StatusOf(d)
  BY DEF Turns
<1>4. StatusMap' = [StatusMap EXCEPT ![c] = to]
  BY <1>2, <1>3 DEF StatusMap
<1> QED
  BY <1>1, <1>4

(* A thread that is about to enter a task leaves room for it: every task   *)
(* that runs has another thread of its own.                                *)
LEMMA RoomToRun ==
  ASSUME TypeInv, BeforeClash, ExecOK, NEW t \in Threads, pc[t] = "take"
  PROVE  Cardinality({c \in Tasks : StatusOf(c) = "running"})
           < Cardinality(Threads)
<1> DEFINE running == {c \in Tasks : StatusOf(c) = "running"}
           thread(c) == CHOOSE u \in Threads :
                          pc[u] = "fiber" /\ m_cb[cur[u]] = c
           F == [c \in running |-> thread(c)]
<1>1. ASSUME NEW c \in running
      PROVE  thread(c) \in Threads \ {t} /\ m_cb[cur[thread(c)]] = c
  <2>1. Executed(c)
    BY DEF StatusOf
  <2>2. \E u \in Threads : pc[u] = "fiber" /\ m_cb[cur[u]] = c
    BY <2>1 DEF Executed, ExecOK
  <2>3. thread(c) \in Threads /\ pc[thread(c)] = "fiber"
        /\ m_cb[cur[thread(c)]] = c
    BY <2>2
  <2> QED
    BY <2>3
<1>2. \A c \in running : F[c] \in Threads \ {t} /\ m_cb[cur[F[c]]] = c
  BY <1>1
<1>3. F \in [running -> Threads \ {t}]
  BY <1>1
<1> HIDE DEF F
<1>4. F \in Injection(running, Threads \ {t})
  BY <1>2, <1>3 DEF Injection, IsInjective
<1>5. /\ IsFiniteSet(Threads \ {t})
      /\ Cardinality(Threads \ {t}) = Cardinality(Threads) - 1
      /\ Cardinality(Threads) \in Nat
  BY SchedulerAssumption, FS_RemoveElement, FS_CardinalityType
<1>6. IsFiniteSet(running) /\ Cardinality(running) <= Cardinality(Threads \ {t})
  BY <1>4, <1>5, FS_Injection
<1>7. Cardinality(running) \in Nat
  BY <1>6, FS_CardinalityType
<1> QED
  BY <1>5, <1>6, <1>7

(* What each action does to the statuses.                                  *)
StatusStep ==
  \/ Stutters
  \/ \E c \in Tasks, from, to \in Lifecycle!Status :
       /\ Turns(c, from, to)
       /\ \/ from = "new" /\ to = "queued"
          \/ from \in {"queued", "runnable"} /\ to = "running"
          \/ from = "running" /\ to \in {"suspended", "runnable", "ended"}
          \/ from = "suspended" /\ to = "runnable"
       /\ to = "running" =>
            Cardinality({d \in Tasks : StatusOf(d) = "running"})
              < Cardinality(Threads)

LEMMA StatusStepIntro ==
  ASSUME NEW c \in Tasks, NEW from, NEW to, Turns(c, from, to),
         \/ from = "new" /\ to = "queued"
         \/ from \in {"queued", "runnable"} /\ to = "running"
         \/ from = "running" /\ to \in {"suspended", "runnable", "ended"}
         \/ from = "suspended" /\ to = "runnable",
         to = "running" =>
           Cardinality({d \in Tasks : StatusOf(d) = "running"})
             < Cardinality(Threads)
  PROVE  StatusStep
<1>1. from \in Lifecycle!Status /\ to \in Lifecycle!Status
  BY DEF Lifecycle!Status
<1> QED
  BY <1>1 DEF StatusStep

LEMMA SubmitStatus ==
  ASSUME TypeInv, BeforeClash, TypeInv', BeforeClash', NEW c \in Tasks, Submit(c)
  PROVE  StatusStep
<1>0. StatusOutside /\ StatusWaiting'
  BY Statuses, PTL
<1>1. /\ c \notin early \cup late
      /\ (early \cup late)' = early \cup late \cup {c}
      /\ UNCHANGED <<waiting, begun, ended>>
  BY DEF Submit
<1>2. StatusOf(c) = "new"
  BY <1>0, <1>1 DEF StatusOutside
<1>3. StatusOf(c)' = "queued"
  <2>1. begun[c] = 0
    BY <1>1 DEF BeforeClash, TasksOK, TaskOK
  <2> QED
    BY <1>0, <1>1, <2>1 DEF StatusWaiting
<1>4. ASSUME NEW d \in Tasks \ {c} PROVE StatusOf(d)' = StatusOf(d)
  <2>0. (d \in early \cup late)' <=> (d \in early \cup late)
    BY <1>1
  <2>1. CASE ScheduleCallback(c, Pin[c])
    BY <1>1, <2>0, <2>1
    DEF ScheduleCallback, StatusOf, Executed, Registered
  <2>2. ASSUME NEW f \in Fibers, ScheduleNewFiber(f, c, Pin[c])
        PROVE  StatusOf(d)' = StatusOf(d)
    <3>1. state[f] = "FREE" /\ state'[f] = "INIT" /\ m_cb'[f] = c
          /\ \A g \in Fibers \ {f} : m_cb'[g] = m_cb[g] /\ state'[g] = state[g]
      BY <2>2, Facts DEF ScheduleNewFiber, Reset
    <3>2. ~(waiting[f] > 0)
      BY <3>1 DEF BeforeClash, WakeupsOK, WakeupState, HasWakeup
    <3> QED
      BY <1>1, <2>0, <3>1, <3>2, OtherStatus
  <2> QED
    BY <2>1, <2>2 DEF Submit
<1> QED
  BY <1>2, <1>3, <1>4, StatusStepIntro DEF Turns

LEMMA WakeStatus ==
  ASSUME TypeInv, BeforeClash, TypeInv', BeforeClash', NEW f \in Fibers, Wake(f)
  PROVE  StatusStep
<1>0. StatusEntered /\ StatusEntered' /\ StatusWaiting /\ StatusWaiting'
  BY Statuses, PTL
<1>1. /\ UNCHANGED <<state, m_cb, early, late, begun, ended>>
      /\ waiting[f] = 1 /\ waiting'[f] = 0
      /\ \A g \in Fibers \ {f} : waiting'[g] = waiting[g]
      /\ m_cb[f] \in Tasks
      /\ state[f] \in {"INIT", "HOLD", "READY", "EXEC"}
  <2>1. waiting[f] > 0 /\ waiting[f] <= 1
    BY DEF Wake, BeforeClash, WakeupsOK, SingleWakeup
  <2>2. m_cb[f] \in Tasks /\ state[f] \in {"INIT", "HOLD", "READY", "EXEC"}
    BY <2>1
    DEF TypeInv, LoadedOK, Loaded, BeforeClash, WakeupsOK, WakeupState, HasWakeup
  <2> QED
    BY <2>1, <2>2, Facts DEF Wake, Unregister
<1>c. PICK c \in Tasks : c = m_cb[f] /\ c = m_cb'[f]
  BY <1>1
<1>2. \A d \in Tasks \ {c} : StatusOf(d)' = StatusOf(d)
  BY <1>1, <1>c, OtherStatus
<1>3. CASE state[f] \in {"HOLD", "READY"}
  <2>1. StatusOf(c) = "suspended"
    BY <1>0, <1>1, <1>c, <1>3 DEF StatusEntered, Entered
  <2>2. StatusOf(c)' = "runnable"
    BY <1>0, <1>1, <1>c, <1>3 DEF StatusEntered, Entered
  <2> QED
    BY <1>2, <2>1, <2>2, StatusStepIntro DEF Turns
<1>4. CASE state[f] = "EXEC"
  <2>1. StatusOf(c) = "running" /\ StatusOf(c)' = "running"
    BY <1>0, <1>1, <1>c, <1>4 DEF StatusEntered, Entered
  <2>2. \A d \in Tasks : StatusOf(d)' = StatusOf(d)
    BY <1>2, <2>1
  <2> QED
    BY <2>2 DEF StatusStep, Stutters
<1>5. CASE state[f] = "INIT"
  <2>1. begun[c] = 0 /\ c \in early \cup late
    BY <1>c, <1>5 DEF BeforeClash, TasksOK, TaskOK, Waits
  <2>2. StatusOf(c) = "queued" /\ StatusOf(c)' = "queued"
    BY <1>0, <1>1, <2>1 DEF StatusWaiting
  <2>3. \A d \in Tasks : StatusOf(d)' = StatusOf(d)
    BY <1>2, <2>2
  <2> QED
    BY <2>3 DEF StatusStep, Stutters
<1> QED
  BY <1>1, <1>3, <1>4, <1>5

LEMMA EnterStatus ==
  ASSUME TypeInv, BeforeClash, TypeInv', BeforeClash', ExecOK, ~clash',
         NEW t \in Threads, ThreadLoop(t), Enter(t)
  PROVE  StatusStep
<1>0. StatusEntered /\ StatusEntered' /\ StatusWaiting
  BY Statuses, PTL
<1>r. /\ pc[t] = "take"
      /\ Cardinality({d \in Tasks : StatusOf(d) = "running"})
           < Cardinality(Threads)
  <2>1. pc[t] = "take"
    BY DEF Enter, ResumeFiber, StartCallback
  <2> QED
    BY <2>1, RoomToRun
<1>u. UNCHANGED <<waiting, early, late, ended>>
  BY <1>r DEF ThreadLoop, Loop, ScanTake, ScanNothing, Back, Idle, SwapOut,
             LeaveStack
<1>1. CASE ResumeFiber(t)
  <2>f. PICK f \in Fibers : f = ft[t].fiber
    BY <1>1, Facts DEF ResumeFiber, Entry
  <2>1. /\ state[f] \in {"INIT", "HOLD", "READY"}
        /\ SwitchTo(t, f, ctx[f]) /\ UNCHANGED m_cb
    BY <1>1, <2>f, TakenFacts, Facts DEF ResumeFiber
  <2>2. state'[f] = "EXEC" /\ \A g \in Fibers \ {f} : state'[g] = state[g]
    BY <2>1, Facts DEF SwitchTo
  <2>c. PICK c \in Tasks : c = m_cb[f] /\ c = m_cb'[f]
    BY <1>0, <2>1, <2>2 DEF StatusEntered, Entered
  <2>3. StatusOf(c)' = "running"
    BY <1>0, <2>2, <2>c DEF StatusEntered, Entered
  <2>4. StatusOf(c) \in {"queued", "runnable"}
    <3>1. CASE state[f] = "INIT"
      <4>1. begun[c] = 0 /\ c \in early \cup late
        BY <2>c, <3>1 DEF BeforeClash, TasksOK, TaskOK, Waits
      <4> QED
        BY <1>0, <4>1 DEF StatusWaiting
    <3>2. CASE state[f] \in {"HOLD", "READY"}
      <4>1. ~(waiting[f] > 0)
        BY <1>r, <2>f DEF BeforeClash, WakeupsOK, SingleWakeup, Taken
      <4> QED
        BY <1>0, <2>c, <3>2, <4>1 DEF StatusEntered, Entered
    <3> QED
      BY <2>1, <3>1, <3>2
  <2>5. ASSUME NEW d \in Tasks \ {c} PROVE StatusOf(d)' = StatusOf(d)
    <3>1. begun'[d] = begun[d]
      <4>1. m_cb'[cur'[t]] = c
        BY <2>1, <2>c, Facts DEF SwitchTo
      <4> QED
        BY <1>r, <4>1, Facts DEF ThreadLoop, Loop, ScanTake, ScanNothing, Back,
                                 Idle, SwapOut, LeaveStack
    <3> QED
      BY <1>u, <2>1, <2>2, <2>c, <3>1, OtherStatus
  <2> QED
    BY <1>r, <2>3, <2>4, <2>5, StatusStepIntro DEF Turns
<1>2. CASE StartCallback(t)
  <2>f. PICK f \in Fibers :
          /\ Reset(f, ft[t].cb) /\ SwitchTo(t, f, "begin")
          /\ state[f] \in {"FREE", "TERM"} /\ ~HasWakeup(f)
          /\ ft[t].cb \in Tasks
    BY <1>2, CallbackFacts
  <2>c. PICK c \in Tasks : c = ft[t].cb
    BY <2>f
  <2>1. /\ state'[f] = "EXEC" /\ m_cb'[f] = c /\ ~(waiting[f] > 0)
        /\ \A g \in Fibers \ {f} : state'[g] = state[g] /\ m_cb'[g] = m_cb[g]
        /\ cur'[t] = f
    BY <2>f, <2>c, Facts DEF SwitchTo, Reset, HasWakeup
  <2>2. StatusOf(c)' = "running"
    BY <1>0, <2>1 DEF StatusEntered, Entered
  <2>3. StatusOf(c) = "queued"
    <3>1. begun[c] = 0 /\ c \in early \cup late
      BY <1>r, <2>c DEF BeforeClash, TasksOK, TaskOK, Waits, CbTaken
    <3> QED
      BY <1>0, <3>1 DEF StatusWaiting
  <2>4. ASSUME NEW d \in Tasks \ {c} PROVE StatusOf(d)' = StatusOf(d)
    <3>1. begun'[d] = begun[d]
      BY <1>r, <2>1, Facts DEF ThreadLoop, Loop, ScanTake, ScanNothing, Back,
                               Idle, SwapOut, LeaveStack
    <3> QED
      BY <1>u, <2>f, <2>1, <3>1, OtherStatus
  <2> QED
    BY <1>r, <2>2, <2>3, <2>4, StatusStepIntro DEF Turns
<1> QED
  BY <1>1, <1>2 DEF Enter

LEMMA LoopStatus ==
  ASSUME TypeInv, NEW t \in Threads, ThreadLoop(t), Loop(t)
  PROVE  StatusStep
<1>1. UNCHANGED <<state, m_cb, waiting, early, late, ended>>
  BY DEF ThreadLoop, Loop, Enter, ResumeFiber, StartCallback, ScanTake,
         ScanNothing, Back, Idle, SwapOut, LeaveStack
<1>2. UNCHANGED begun
  BY Facts
  DEF ThreadLoop, Loop, Enter, ResumeFiber, StartCallback, ScanTake,
      ScanNothing, Back, Idle, SwapOut, LeaveStack, Continue
<1> QED
  BY <1>1, <1>2, SameStatus DEF StatusStep, Stutters

LEMMA TaskStatus ==
  ASSUME TypeInv, BeforeClash, TypeInv', BeforeClash', NEW t \in Threads,
         TaskStep(t)
  PROVE  StatusStep
<1>0. StatusEntered /\ StatusEntered' /\ StatusOutside'
  BY Statuses, PTL
<1>t. pc[t] = "fiber"
  BY DEF TaskStep, Register, YieldRegistered, YieldUnregistered, Finish,
         Executing
<1>f. PICK f \in Fibers : cur[t] = f /\ state[f] = "EXEC" /\ m_cb[f] \in Tasks
  BY <1>t, ExecutingFacts
<1>c. PICK c \in Tasks : c = m_cb[f] /\ c = m_cb'[f]
  BY <1>f
  DEF TaskStep, Register, YieldRegistered, YieldUnregistered, Finish, Step,
      YieldTo, EndTask
<1>1. StatusOf(c) = "running"
  BY <1>0, <1>f, <1>c DEF StatusEntered, Entered
<1>2. ASSUME NEW d \in Tasks \ {c} PROVE StatusOf(d)' = StatusOf(d)
  <2>1. /\ UNCHANGED <<m_cb, early, late, begun>>
        /\ \A g \in Fibers \ {f} : /\ state'[g] = state[g]
                                   /\ waiting'[g] = waiting[g]
    BY <1>f, Facts
    DEF TaskStep, Register, AddRegistration, YieldRegistered, YieldUnregistered,
        Finish, Step, YieldTo, EndTask
  <2>2. (d \in ended)' <=> (d \in ended)
    BY <1>f, <1>c
    DEF TaskStep, Register, YieldRegistered, YieldUnregistered, Finish
  <2> QED
    BY <1>c, <2>1, <2>2, OtherStatus
<1>3. CASE Register(t)
  <2>1. state'[f] = "EXEC"
    BY <1>f, <1>3 DEF Register, Step
  <2>2. StatusOf(c)' = "running"
    BY <1>0, <1>c, <2>1 DEF StatusEntered, Entered
  <2>3. \A d \in Tasks : StatusOf(d)' = StatusOf(d)
    BY <1>1, <1>2, <2>2
  <2> QED
    BY <2>3 DEF StatusStep, Stutters
<1>4. CASE YieldRegistered(t) \/ YieldUnregistered(t)
  <2>1. state'[f] \in {"HOLD", "READY"}
    BY <1>f, <1>4, Facts DEF YieldRegistered, YieldUnregistered, YieldTo
  <2>2. StatusOf(c)' \in {"suspended", "runnable"}
    BY <1>0, <1>c, <2>1 DEF StatusEntered, Entered
  <2>3. PICK to \in {"suspended", "runnable"} : StatusOf(c)' = to
    BY <2>2
  <2> QED
    BY <1>1, <1>2, <2>3, StatusStepIntro DEF Turns
<1>5. CASE Finish(t)
  <2>1. c \in ended'
    BY <1>f, <1>c, <1>5 DEF Finish
  <2>2. StatusOf(c)' = "ended"
    BY <1>0, <2>1 DEF StatusOutside
  <2> QED
    BY <1>1, <1>2, <2>2, StatusStepIntro DEF Turns
<1> QED
  BY <1>3, <1>4, <1>5 DEF TaskStep

(* The operator TaskLifecycle takes from FiniteSets is the same one.       *)
LEMMA SameCardinality ==
  ASSUME NEW S
  PROVE  Lifecycle!Cardinality(S) = Cardinality(S)
  BY Zenon DEF Cardinality, Lifecycle!Cardinality

LEMMA EveryStatusStep ==
  ASSUME IInv, IInv', ExecOK, [Next]_vars, ~clash'
  PROVE  StatusStep
<1>1. clash => clash'
  BY DEF Next, Submit, ScheduleCallback, ScheduleNewFiber, Wake, ThreadLoop,
         Loop, Enter, ScanTake, ScanNothing, Back, Idle, SwapOut, LeaveStack,
         ResumeFiber, StartCallback, SwitchTo, TaskStep, Register,
         YieldRegistered, YieldUnregistered, Finish, Step, YieldTo, EndTask,
         StopStep, Stop, vars, schedVars
<1>2. TypeInv /\ BeforeClash /\ TypeInv' /\ BeforeClash'
  BY <1>1 DEF IInv
<1>3. ASSUME NEW t \in Threads, ThreadLoop(t) PROVE StatusStep
  <2>1. Loop(t) \/ Enter(t)
    BY <1>3 DEF ThreadLoop
  <2> QED
    BY <1>2, <1>3, <2>1, LoopStatus, EnterStatus
<1>4. CASE StopStep \/ UNCHANGED vars
  <2>1. UNCHANGED <<state, m_cb, waiting, early, late, begun, ended>>
    BY <1>4 DEF StopStep, Stop, vars, schedVars
  <2> QED
    BY <2>1, SameStatus DEF StatusStep, Stutters
<1> QED
  BY <1>2, <1>3, <1>4, SubmitStatus, WakeStatus, TaskStatus DEF Next

(* Initial states map to initial states ...                                *)
LEMMA LifecycleStart == Init => Lifecycle!Init
  BY DEF Init, Lifecycle!Init, StatusOf

(* ... and, as long as no thread has switched to a fiber another thread    *)
(* still executes on, every step of the scheduler, of its tasks and of     *)
(* what wakes them is one step in the life of one task, or of none; there  *)
(* are never more tasks running than threads.                              *)
THEOREM LifecycleSteps == Spec => StepsOfLifecycle
<1>1. IInv /\ IInv' /\ ExecOK /\ [Next]_vars
        => (~clash' => (Lifecycle!Next \/ UNCHANGED [c \in Tasks |-> StatusOf(c)]))
  <2> SUFFICES ASSUME IInv, IInv', ExecOK, [Next]_vars, ~clash'
               PROVE  Lifecycle!Next \/ UNCHANGED [c \in Tasks |-> StatusOf(c)]
    OBVIOUS
  <2>1. CASE Stutters
    BY <2>1 DEF Stutters
  <2>2. ASSUME NEW c \in Tasks, NEW from, NEW to, Turns(c, from, to),
               \/ from = "new" /\ to = "queued"
               \/ from \in {"queued", "runnable"} /\ to = "running"
               \/ from = "running" /\ to \in {"suspended", "runnable", "ended"}
               \/ from = "suspended" /\ to = "runnable",
               to = "running" =>
                 Cardinality({d \in Tasks : StatusOf(d) = "running"})
                   < Cardinality(Threads)
        PROVE  Lifecycle!Next
    <3>1. StatusMap[c] = from /\ StatusMap' = [StatusMap EXCEPT ![c] = to]
      BY <2>2, TurnsBecome
    <3>2. CASE to = "queued"
      BY <2>2, <3>1, <3>2
      DEF Lifecycle!Next, Lifecycle!Submit, Lifecycle!Become, StatusMap
    <3>3. CASE to = "suspended"
      BY <2>2, <3>1, <3>3
      DEF Lifecycle!Next, Lifecycle!Suspend, Lifecycle!Become, StatusMap
    <3>4. CASE to = "ended"
      BY <2>2, <3>1, <3>4
      DEF Lifecycle!Next, Lifecycle!End, Lifecycle!Become, StatusMap
    <3>5. CASE to = "runnable" /\ from = "running"
      BY <2>2, <3>1, <3>5
      DEF Lifecycle!Next, Lifecycle!Yield, Lifecycle!Become, StatusMap
    <3>6. CASE to = "runnable" /\ from = "suspended"
      BY <2>2, <3>1, <3>6
      DEF Lifecycle!Next, Lifecycle!Wake, Lifecycle!Become, StatusMap
    <3>7. CASE to = "running"
      <4>1. Lifecycle!Running = {d \in Tasks : StatusOf(d) = "running"}
        BY DEF Lifecycle!Running
      <4>2. Cardinality(Lifecycle!Running) < Cardinality(Threads)
        BY <2>2, <3>7, <4>1
      <4>3. Lifecycle!Dispatch(c)
        BY <2>2, <3>1, <3>7, <4>2, SameCardinality
        DEF Lifecycle!Dispatch, Lifecycle!Become, StatusMap
      <4> QED
        BY <4>3 DEF Lifecycle!Next
    <3> QED
      BY <2>2, <3>2, <3>3, <3>4, <3>5, <3>6, <3>7
  <2> QED
    BY <2>1, <2>2, EveryStatusStep DEF StatusStep
<1>2. Spec => [][IInv /\ IInv' /\ ExecOK /\ [Next]_vars]_vars
  BY Invariant, ExecutedHaveThread, PTL DEF Spec
<1> QED
  BY <1>1, <1>2, PTL DEF StepsOfLifecycle

(* With one worker thread nobody else executes on the fiber it switches to. *)
LEMMA NoClashAlone ==
  ASSUME \A t, u \in Threads : t = u
  PROVE  Spec => []~clash
<1>1. Init => ~clash
  BY DEF Init, SchedulerInit
<1>2. TypeInv /\ ~clash /\ [Next]_vars => ~clash'
  <2> SUFFICES ASSUME TypeInv, ~clash, [Next]_vars PROVE ~clash'
    OBVIOUS
  <2>1. ASSUME NEW t \in Threads, NEW f, NEW s, SwitchTo(t, f, s) PROVE ~clash'
    BY <2>1 DEF SwitchTo, BusyElsewhere
  <2>2. ASSUME NEW t \in Threads, ThreadLoop(t) PROVE ~clash'
    BY <2>1, <2>2
    DEF ThreadLoop, Loop, Enter, ScanTake, ScanNothing, Back, Idle, SwapOut,
        LeaveStack, ResumeFiber, StartCallback
  <2> QED
    BY <2>2
    DEF Next, Submit, ScheduleCallback, ScheduleNewFiber, Wake, TaskStep,
        Register, YieldRegistered, YieldUnregistered, Finish, Step, YieldTo,
        EndTask, StopStep, Stop, vars, schedVars
<1>3. IInv => TypeInv
  BY DEF IInv
<1> QED
  BY <1>1, <1>2, <1>3, Invariant, PTL DEF Spec

(* A Scheduler with one worker thread implements the life cycle of its     *)
(* tasks: every behaviour is one of TaskLifecycle.                         *)
THEOREM OneThreadImplementsLifecycle ==
  ASSUME \A t, u \in Threads : t = u
  PROVE  Spec => ImplementsLifecycle
<1>1. Spec => []~clash
  BY NoClashAlone
<1>2. UNCHANGED vars => UNCHANGED [c \in Tasks |-> StatusOf(c)]
  BY SameStatus DEF vars, schedVars
<1> QED
  BY <1>1, <1>2, LifecycleStart, LifecycleSteps, PTL
  DEF Spec, StepsOfLifecycle, ImplementsLifecycle, Lifecycle!Spec
================================================================================
