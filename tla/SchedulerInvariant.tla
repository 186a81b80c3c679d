-------------------------- MODULE SchedulerInvariant --------------------------
(***************************************************************************)
(* The inductive invariant behind the safety properties of SchedulerTasks. *)
(* Everything in it but the types is about the time before some thread     *)
(* switches to a fiber another thread still executes on.                   *)
(***************************************************************************)
EXTENDS SchedulerTasks

OnFiber == {"fiber", "swapOut", "exit"}
Holding == {"take", "fiber", "swapOut", "exit", "back"}

(* A fiber that is executed, listed, held or registered has a callback;    *)
(* without this the types are not inductive.                               *)
Loaded(f) == f \in Fibers /\ m_cb[f] \in Tasks

LoadedOK ==
  /\ \A t \in Threads : pc[t] \in OnFiber => Loaded(cur[t])
  /\ \A t \in Threads : ft[t].fiber \in Fibers => Loaded(ft[t].fiber)
  /\ \A e \in Entries : e.fiber \in Fibers => Loaded(e.fiber)
  /\ \A f \in Fibers : waiting[f] > 0 => Loaded(f)

TypeInv == TypeOK /\ LoadedOK

HasWakeup(f) == waiting[f] > 0 \/ Queued(f) \/ Taken(f)

CbQueued(c) == \E e \in Entries : e.cb = c
CbTaken(c)  == \E t \in Threads : pc[t] = "take" /\ ft[t].cb = c

Entered(f) == state[f] \in {"EXEC", "HOLD", "READY"}

(* An entry is a fiber or a callback, and no two entries are for the same  *)
(* one.                                                                    *)
WellFormed(e) == (e.fiber = NoFiber) # (e.cb = NoTask)

Twins(d, e) ==
  \/ d.fiber = e.fiber /\ d.fiber # NoFiber
  \/ d.cb = e.cb /\ d.cb # NoTask

QueueOK ==
  /\ \A e \in Entries : WellFormed(e)
  /\ \A i, j \in DOMAIN m_fibers : Twins(m_fibers[i], m_fibers[j]) => i = j

HeldOK == \A t \in Threads : pc[t] \in Holding => WellFormed(ft[t])

(* A thread executes on one fiber, on which no other thread executes, and  *)
(* whose state goes with where the thread is.                              *)
StackOK(t) ==
  /\ pc[t] \in OnFiber <=> cur[t] # NoFiber
  /\ pc[t] = "fiber"   => state[cur[t]] = "EXEC"
  /\ pc[t] = "swapOut" => state[cur[t]] \in {"HOLD", "READY"} /\ at[t] = "resumed"
  /\ pc[t] = "exit"    => state[cur[t]] \in {"TERM", "EXECPT"}

StacksOK ==
  /\ \A t \in Threads : StackOK(t)
  /\ \A t, u \in Threads : (cur[t] = cur[u] /\ cur[t] # NoFiber) => t = u

(* A thread's cb_fiber is its own, and has ended when the thread is not in *)
(* a callback.                                                             *)
CbFiberOK(t) ==
  cb_fiber[t] # NoFiber =>
    /\ state[cb_fiber[t]] # "FREE"
    /\ (pc[t] \notin OnFiber \cup {"back"} \/ ft[t].cb = NoTask)
         => state[cb_fiber[t]] = "TERM"

CbFibersOK ==
  /\ \A t \in Threads : CbFiberOK(t)
  /\ \A t, u \in Threads :
       (cb_fiber[t] = cb_fiber[u] /\ cb_fiber[t] # NoFiber) => t = u

(* A fiber has one wake-up at most ...                                     *)
OneTaker(f) ==
  \A t, u \in Threads :
    (/\ pc[t] = "take" /\ ft[t].fiber = f
     /\ pc[u] = "take" /\ ft[u].fiber = f) => t = u

SingleWakeup(f) ==
  /\ OneTaker(f)
  /\ ~(Queued(f) /\ Taken(f))
  /\ waiting[f] <= 1
  /\ waiting[f] > 0 => ~Queued(f) /\ ~Taken(f)

(* ... has none unless it is new or suspended or about to yield ...        *)
WakeupState(f) ==
  /\ HasWakeup(f) => state[f] \in {"INIT", "HOLD", "READY", "EXEC"}
  /\ Taken(f) => state[f] # "EXEC"
  /\ \A t \in Threads :
       (pc[t] = "fiber" /\ cur[t] = f) => (HasWakeup(f) <=> at[t] = "yield")

(* ... and has one when it has registered and is suspended.                *)
WakeupComes(f) ==
  /\ (Suspended(f) /\ Kind[m_cb[f]] = "park") => HasWakeup(f)
  /\ \A t \in Threads :
       (pc[t] = "fiber" /\ cur[t] = f /\ at[t] = "yield") => Kind[m_cb[f]] = "park"

WakeupsOK ==
  \A f \in Fibers : SingleWakeup(f) /\ WakeupState(f) /\ WakeupComes(f)

(* Where a fiber that is not on a stack resumes.                           *)
ContextOK(f) ==
  /\ state[f] # "FREE" => m_cb[f] \in Tasks
  /\ state[f] = "INIT" => ctx[f] = "begin"
  /\ (Suspended(f) /\ ~OnStack(f)) => ctx[f] = "resumed"

ContextsOK == \A f \in Fibers : ContextOK(f)

(* A task that is not entered yet waits in one place; one that is entered  *)
(* has one fiber until it ends.                                            *)
Waits(c) ==
  \/ CbQueued(c)
  \/ CbTaken(c)
  \/ \E f \in Fibers : state[f] = "INIT" /\ m_cb[f] = c

OnePlace(c) ==
  /\ ~(CbQueued(c) /\ CbTaken(c))
  /\ \A t, u \in Threads :
       (pc[t] = "take" /\ ft[t].cb = c /\ pc[u] = "take" /\ ft[u].cb = c) => t = u
  /\ \A f, g \in Fibers :
       (state[f] = "INIT" /\ m_cb[f] = c /\ state[g] = "INIT" /\ m_cb[g] = c)
         => f = g
  /\ \A f \in Fibers :
       state[f] = "INIT" /\ m_cb[f] = c => ~CbQueued(c) /\ ~CbTaken(c)

OneFiber(c) ==
  \A f, g \in Fibers :
    (Entered(f) /\ m_cb[f] = c /\ Entered(g) /\ m_cb[g] = c) => f = g

TaskOK(c) ==
  /\ OnePlace(c)
  /\ OneFiber(c)
  /\ begun[c] <= 1
  /\ Waits(c) => begun[c] = 0 /\ c \in early \cup late
  /\ c \notin early \cup late => begun[c] = 0
  /\ c \in ended => begun[c] = 1
  /\ \A f \in Fibers : Entered(f) /\ m_cb[f] = c => begun[c] = 1 /\ c \notin ended

TasksOK == \A c \in Tasks : TaskOK(c)

BeforeClash ==
  /\ QueueOK
  /\ HeldOK
  /\ StacksOK
  /\ CbFibersOK
  /\ WakeupsOK
  /\ ContextsOK
  /\ TasksOK

IInv == TypeInv /\ (~clash => BeforeClash)
=============================================================================
