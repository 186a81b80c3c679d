------------------------------ MODULE Scheduler ------------------------------
(***************************************************************************)
(* The fibers of fiber.cpp and the worker threads of scheduler.cpp.        *)
(*                                                                         *)
(* Every worker thread runs Scheduler::mainFun: it takes an entry off the  *)
(* shared list m_fibers, switches to the fiber of the entry (or to its own *)
(* cb_fiber for a callback), and comes back to the loop when that fiber    *)
(* yields or ends.  A switch is two steps, as in the code: yieldToHold and *)
(* yieldToReady publish the new m_state first and only then does           *)
(* swapcontext save the registers, while the entry that will resume the    *)
(* fiber may already be in m_fibers.                                       *)
(*                                                                         *)
(* The module has the state and the actions of the loop and of the fiber   *)
(* primitives.  What the tasks do is left to the modules that extend this  *)
(* one: at[t] is the next statement of the task thread t executes, and     *)
(* every module names its own statements.                                  *)
(***************************************************************************)
EXTENDS Naturals, Sequences, FiniteSets, SequencesExt

CONSTANTS
  Threads,    (* the worker threads of one Scheduler                       *)
  Fibers,     (* the Fiber objects that can be allocated                   *)
  Tasks,      (* the callbacks given to schedule() or to a Fiber           *)
  AnyThread,  (* threadId = -1: an entry every thread may take             *)
  NoFiber,    (* a null Fiber::ptr                                         *)
  NoTask      (* a null std::function                                      *)

ASSUME SchedulerAssumption ==
  /\ IsFiniteSet(Threads)
  /\ AnyThread \notin Threads
  /\ NoFiber \notin Fibers
  /\ NoTask \notin Tasks

VARIABLES
  m_fibers,   (* Scheduler::m_fibers                                       *)
  m_stop,     (* Scheduler::m_stop                                         *)
  pc,         (* where each thread is in mainFun, see Where                *)
  ft,         (* mainFun's local ft                                        *)
  need_tick,  (* mainFun's local need_tick                                 *)
  cb_fiber,   (* mainFun's local cb_fiber                                  *)
  cur,        (* t_cur_fiber; NoFiber stands for the thread's main fiber   *)
  at,         (* next statement of the task a thread executes              *)
  state,      (* Fiber::m_state; "FREE" before the object is created       *)
  ctx,        (* the statement Fiber::m_ctx resumes at                     *)
  m_cb,       (* Fiber::m_cb                                               *)
  clash       (* history: some thread switched to a fiber while another    *)
              (* thread was still executing on the stack of that fiber     *)

schedVars ==
  <<m_fibers, m_stop, pc, ft, need_tick, cb_fiber, cur, at, state, ctx,
    m_cb, clash>>

-----------------------------------------------------------------------------
(* Fiber::State, with "FREE" for an object that does not exist yet.        *)
FiberState == {"FREE", "INIT", "READY", "EXEC", "HOLD", "TERM", "EXECPT"}

(***************************************************************************)
(* scan    about to lock m_mutex and look for an entry                     *)
(* take    holds an entry in ft, m_mutex released                          *)
(* fiber   executes the task of cur                                        *)
(* swapOut cur has set its m_state, swapcontext has not saved m_ctx        *)
(* exit    cur is TERM or EXECPT, run() has not left its stack             *)
(* back    swapIn returned to mainFun                                      *)
(* idle    about to switch to idleFiber                                    *)
(* done    mainFun returned                                                *)
(***************************************************************************)
Where == {"scan", "take", "fiber", "swapOut", "exit", "back", "idle", "done"}

Entry == [fiber  : Fibers \cup {NoFiber},
          cb     : Tasks \cup {NoTask},
          thread : Threads \cup {AnyThread}]

FiberEntry(f, thread)    == [fiber |-> f, cb |-> NoTask, thread |-> thread]
CallbackEntry(c, thread) == [fiber |-> NoFiber, cb |-> c, thread |-> thread]
NoEntry == [fiber |-> NoFiber, cb |-> NoTask, thread |-> AnyThread]

(* A fiber some thread other than t still executes on.                     *)
BusyElsewhere(t, f) == \E u \in Threads \ {t} : cur[u] = f

(* The loop starts again at once when m_fibers was not empty, and goes     *)
(* through the idle fiber when it was; ft.reset() is its first statement.  *)
Continue(t) ==
  /\ pc' = [pc EXCEPT ![t] = IF need_tick[t] THEN "scan" ELSE "idle"]
  /\ need_tick' = [need_tick EXCEPT ![t] = FALSE]
  /\ ft' = [ft EXCEPT ![t] = NoEntry]

SchedulerTypeOK(Statements) ==
  /\ m_fibers \in Seq(Entry)
  /\ m_stop \in BOOLEAN
  /\ pc \in [Threads -> Where]
  /\ ft \in [Threads -> Entry]
  /\ need_tick \in [Threads -> BOOLEAN]
  /\ cb_fiber \in [Threads -> Fibers \cup {NoFiber}]
  /\ cur \in [Threads -> Fibers \cup {NoFiber}]
  /\ at \in [Threads -> Statements]
  /\ state \in [Fibers -> FiberState]
  /\ ctx \in [Fibers -> Statements]
  /\ m_cb \in [Fibers -> Tasks \cup {NoTask}]
  /\ clash \in BOOLEAN

(* The state start() leaves: every thread at the top of its loop.          *)
SchedulerInit ==
  /\ m_fibers = <<>>
  /\ m_stop = FALSE
  /\ pc = [t \in Threads |-> "scan"]
  /\ ft = [t \in Threads |-> NoEntry]
  /\ need_tick = [t \in Threads |-> FALSE]
  /\ cb_fiber = [t \in Threads |-> NoFiber]
  /\ cur = [t \in Threads |-> NoFiber]
  /\ at = [t \in Threads |-> "begin"]
  /\ state = [f \in Fibers |-> "FREE"]
  /\ ctx = [f \in Fibers |-> "begin"]
  /\ m_cb = [f \in Fibers |-> NoTask]
  /\ clash = FALSE

-----------------------------------------------------------------------------
(* schedule() and the creation of a Fiber for a task.                      *)

Schedule(e) == m_fibers' = Append(m_fibers, e)

(* The constructor and reset(): f will run c from its start.               *)
Reset(f, c) ==
  /\ ctx' = [ctx EXCEPT ![f] = "begin"]
  /\ m_cb' = [m_cb EXCEPT ![f] = c]

ScheduleCallback(c, thread) ==
  /\ Schedule(CallbackEntry(c, thread))
  /\ UNCHANGED <<m_stop, pc, ft, need_tick, cb_fiber, cur, at, state, ctx,
                 m_cb, clash>>

ScheduleNewFiber(f, c, thread) ==
  /\ state[f] = "FREE"
  /\ state' = [state EXCEPT ![f] = "INIT"]
  /\ Reset(f, c)
  /\ Schedule(FiberEntry(f, thread))
  /\ UNCHANGED <<m_stop, pc, ft, need_tick, cb_fiber, cur, at, clash>>

-----------------------------------------------------------------------------
(* mainFun, thread t.                                                      *)

(* Mutants of Eligible: a thread takes only what is pinned to it; the scan *)
(* does not look at the state of the fiber.                                *)
EligiblePinned(t, e) ==
  e.thread = t /\ (e.fiber # NoFiber => state[e.fiber] # "EXEC")

EligibleInAnyState(t, e) == e.thread \in {t, AnyThread}

(* An entry the scan does not step over: for this thread, and not a fiber  *)
(* in state EXEC.                                                          *)
Eligible(t, e) ==
  /\ e.thread \in {t, AnyThread}
  /\ e.fiber # NoFiber => state[e.fiber] # "EXEC"

(* Mutant of Erase: the entry is copied and stays in the list.             *)
EraseNothing(i) == i \in DOMAIN m_fibers /\ UNCHANGED m_fibers

Erase(i) == m_fibers' = RemoveAt(m_fibers, i)

ScanTake(t) ==
  /\ pc[t] = "scan"
  /\ \E i \in DOMAIN m_fibers :
       /\ Eligible(t, m_fibers[i])
       /\ \A j \in 1..(i-1) : ~Eligible(t, m_fibers[j])
       /\ ft' = [ft EXCEPT ![t] = m_fibers[i]]
       /\ Erase(i)
       /\ need_tick' = [need_tick EXCEPT ![t] = Len(m_fibers) > 1]
  /\ pc' = [pc EXCEPT ![t] = "take"]
  /\ UNCHANGED <<m_stop, cb_fiber, cur, at, state, ctx, m_cb, clash>>

(* Nothing to take.  With entries left (other threads' or EXEC fibers) the *)
(* loop scans again, which changes nothing; with none it goes idle.        *)
ScanNothing(t) ==
  /\ pc[t] = "scan"
  /\ m_fibers = <<>>
  /\ pc' = [pc EXCEPT ![t] = "idle"]
  /\ UNCHANGED <<m_fibers, m_stop, ft, need_tick, cb_fiber, cur, at, state,
                 ctx, m_cb, clash>>

(* swapIn: t leaves its main fiber for f and resumes at statement s.       *)
SwitchTo(t, f, s) ==
  /\ pc' = [pc EXCEPT ![t] = "fiber"]
  /\ cur' = [cur EXCEPT ![t] = f]
  /\ state' = [state EXCEPT ![f] = "EXEC"]
  /\ at' = [at EXCEPT ![t] = s]
  /\ clash' = (clash \/ BusyElsewhere(t, f))

(* The entry in ft satisfies the SEAICE_ASSERTs between the scan and the   *)
(* switch: mainFun's and swapIn's on a fiber, reset()'s on cb_fiber.  A    *)
(* thread that fails one takes no further step: the process aborts.        *)
AssertionsHold(t) ==
  pc[t] = "take" =>
    /\ ft[t].fiber # NoFiber => state[ft[t].fiber] \notin {"EXEC", "EXECPT"}
    /\ (ft[t].cb # NoTask /\ cb_fiber[t] # NoFiber) =>
         state[cb_fiber[t]] \in {"TERM", "EXECPT", "INIT"}

(* Mutant of Dropped: only a fiber that yielded to HOLD is resumed.        *)
DroppedUnlessHold(f) == state[f] \in {"TERM", "READY"}

(* The entry of a fiber that has ended is dropped; NothingAfterEnd of      *)
(* SchedulerTasks says that no such entry is ever taken.                   *)
Dropped(f) == state[f] = "TERM"

ResumeFiber(t) ==
  LET f == ft[t].fiber IN
  /\ pc[t] = "take"
  /\ AssertionsHold(t)
  /\ f # NoFiber
  /\ IF Dropped(f)
     THEN Continue(t) /\ UNCHANGED <<cur, at, state, clash>>
     ELSE SwitchTo(t, f, ctx[f]) /\ UNCHANGED <<ft, need_tick>>
  /\ UNCHANGED <<m_fibers, m_stop, cb_fiber, ctx, m_cb>>

(* A callback runs on cb_fiber: reset() when the thread has one, a new     *)
(* Fiber when it has none.                                                 *)
StartCallback(t) ==
  /\ pc[t] = "take"
  /\ AssertionsHold(t)
  /\ ft[t].cb # NoTask
  /\ \E f \in Fibers :
       /\ IF cb_fiber[t] # NoFiber THEN f = cb_fiber[t] ELSE state[f] = "FREE"
       /\ cb_fiber' = [cb_fiber EXCEPT ![t] = f]
       /\ Reset(f, ft[t].cb)
       /\ SwitchTo(t, f, "begin")
  /\ UNCHANGED <<m_fibers, m_stop, ft, need_tick>>

(* swapIn has returned.  After a callback, cb_fiber is kept for the next   *)
(* one only if its state reads TERM now.                                   *)
Back(t) ==
  /\ pc[t] = "back"
  /\ cb_fiber' =
       [cb_fiber EXCEPT ![t] =
          IF ft[t].cb # NoTask /\ state[cb_fiber[t]] # "TERM"
          THEN NoFiber ELSE @]
  /\ Continue(t)
  /\ UNCHANGED <<m_fibers, m_stop, cur, at, state, ctx, m_cb, clash>>

(* Mutant of isStoping: it is false, as IOManager's override is.           *)
NeverStops == FALSE

(* One round of the idle fiber: isStoping() under the lock.                *)
isStoping == m_stop /\ m_fibers = <<>>

Idle(t) ==
  /\ pc[t] = "idle"
  /\ pc' = [pc EXCEPT ![t] = IF isStoping THEN "done" ELSE "scan"]
  /\ UNCHANGED <<m_fibers, m_stop, ft, need_tick, cb_fiber, cur, at, state,
                 ctx, m_cb, clash>>

(* stop() up to the joins; Joined is the condition they wait for.          *)
Stop ==
  /\ ~m_stop
  /\ m_stop' = TRUE
  /\ UNCHANGED <<m_fibers, pc, ft, need_tick, cb_fiber, cur, at, state, ctx,
                 m_cb, clash>>

Joined == \A t \in Threads : pc[t] = "done"

-----------------------------------------------------------------------------
(* The fiber primitives, executed by the task of cur[t].                   *)

(* The task reaches its next statement without a switch.                   *)
Step(t, s) ==
  /\ at' = [at EXCEPT ![t] = s]
  /\ UNCHANGED <<m_stop, pc, ft, need_tick, cb_fiber, cur, state, ctx, m_cb,
                 clash>>

(* yieldToHold and yieldToReady, up to the assignment of m_state.          *)
YieldTo(t, st, s) ==
  /\ pc' = [pc EXCEPT ![t] = "swapOut"]
  /\ state' = [state EXCEPT ![cur[t]] = st]
  /\ at' = [at EXCEPT ![t] = s]
  /\ UNCHANGED <<m_fibers, m_stop, ft, need_tick, cb_fiber, cur, ctx, m_cb,
                 clash>>

Save(t) == ctx' = [ctx EXCEPT ![cur[t]] = at[t]]

(* swapcontext saves the context and the thread is back in its main fiber. *)
SwapOut(t) ==
  /\ pc[t] = "swapOut"
  /\ Save(t)
  /\ cur' = [cur EXCEPT ![t] = NoFiber]
  /\ at' = [at EXCEPT ![t] = "begin"]
  /\ pc' = [pc EXCEPT ![t] = "back"]
  /\ UNCHANGED <<m_fibers, m_stop, ft, need_tick, cb_fiber, state, m_cb,
                 clash>>

(* run(): m_cb returned (TERM) or threw (EXECPT).                          *)
EndTask(t, st) ==
  /\ pc' = [pc EXCEPT ![t] = "exit"]
  /\ state' = [state EXCEPT ![cur[t]] = st]
  /\ UNCHANGED <<m_fibers, m_stop, ft, need_tick, cb_fiber, cur, at, ctx,
                 m_cb, clash>>

(* run(): setcontext to the main fiber of whatever thread this is now.     *)
LeaveStack(t) ==
  /\ pc[t] = "exit"
  /\ cur' = [cur EXCEPT ![t] = NoFiber]
  /\ at' = [at EXCEPT ![t] = "begin"]
  /\ pc' = [pc EXCEPT ![t] = "back"]
  /\ UNCHANGED <<m_fibers, m_stop, ft, need_tick, cb_fiber, state, ctx, m_cb,
                 clash>>

(* What thread t does outside a task: entering one, and the rest.          *)
Enter(t) == ResumeFiber(t) \/ StartCallback(t)

Loop(t) ==
  \/ ScanTake(t)
  \/ ScanNothing(t)
  \/ Back(t)
  \/ Idle(t)
  \/ SwapOut(t)
  \/ LeaveStack(t)
=============================================================================
