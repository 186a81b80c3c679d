---------------------------- MODULE TimerInvariant ----------------------------
(***************************************************************************)
(* The inductive invariant behind the safety properties of TimerManager.   *)
(***************************************************************************)
EXTENDS TimerManager

InLoop == {"each", "copy", "cycle", "add", "tick"}

(* vec is empty outside the loop over it; the timer in hand was taken off  *)
(* vec; only a cyclic one is added again.                                  *)
HandsOK ==
  \A t \in Threads :
    /\ pc[t] \notin InLoop => vec[t] = {}
    /\ pc[t] \in {"copy", "cycle", "add"} => it[t] \in Timers \ vec[t]
    /\ pc[t] = "add" => it[t] \in Cyclic

CycleOK == \A x \in Timers : m_cycle[x] => x \in Cyclic

(* A timer that addTimer has not been called for is nowhere.               *)
Absent(x) == x \notin m_timerSet /\ \A t \in Threads : ~Held(x, t)

FreshOK ==
  \A x \in Timers : user[x] \in {"new", "made"} => Absent(x) /\ fired[x] = 0

(* A timer delTimer has done with, or is about to erase, is cancelled.     *)
DeletedOK ==
  /\ \A x \in deleted : m_cancel[x] /\ x \notin m_timerSet
  /\ \A x \in Timers : lock = x /\ user[x] # "tick" => m_cancel[x]

(* No clock that was read is ahead of the clock, and what was taken was    *)
(* due.                                                                    *)
ClockOK ==
  /\ m_timer <= now
  /\ \A t \in Threads : stamp[t] <= now
  /\ \A x \in Timers : last[x] <= now

DueOK ==
  /\ NeverEarly
  /\ \A t \in Threads : pc[t] = "copy" => m_expire_ms[it[t]] <= now

(* A timer that will fire unless it is cancelled.                          *)
WillFire(x) ==
  \/ x \in m_timerSet
  \/ \E t \in Threads : x \in vec[t] \/ (pc[t] \in {"copy", "add"} /\ it[t] = x)

(* After it has fired only a cyclic timer will again, and not before its   *)
(* period is over.                                                         *)
FiredOK ==
  \A x \in Timers :
    /\ x \notin Cyclic => fired[x] <= 1
    /\ (fired[x] > 0 /\ WillFire(x)) =>
         x \in Cyclic /\ m_expire_ms[x] >= last[x] + Ms[x]

IInv ==
  /\ TypeOK
  /\ OneKeeper
  /\ HandsOK
  /\ CycleOK
  /\ FreshOK
  /\ DeletedOK
  /\ ClockOK
  /\ DueOK
  /\ FiredOK
-----------------------------------------------------------------------------
(* What makes lateness bounded as long as time passed only while nobody    *)
(* had a step to take.                                                     *)

(* The lock is held for no longer than it takes to write to the pipe.      *)
LockOK == \A t \in Threads : lock = t => pc[t] = "tick"

(* A thread reads the clock, tells the others and takes what is due in one *)
(* millisecond; a timer is given its time and added in one.                *)
MomentOK ==
  /\ \A t \in Threads : pc[t] \in {"probe", "empty", "take"} => stamp[t] = now
  /\ \A t \in Threads : pc[t] \in {"empty", "take"} => m_timer = now
  /\ \A t \in Threads : pc[t] = "add" => m_expire_ms[it[t]] >= now
  /\ \A x \in Timers : user[x] = "made" => m_expire_ms[x] >= now

(* A thread that has looked in this millisecond has left nothing behind.   *)
LookedOK ==
  \A t \in Threads :
    (pc[t] \notin {"clock", "probe", "empty", "take"} /\ stamp[t] = now) =>
      \A x \in m_timerSet : m_expire_ms[x] >= now

(* No thread sleeps for longer than a timer may be late.                   *)
SleepOK ==
  \A t \in Threads : pc[t] = "asleep" =>
    /\ deadline[t] <= now + MaxSleep
    /\ \A x \in m_timerSet : deadline[t] <= m_expire_ms[x] + MaxSleep

MembersInTime == \A x \in m_timerSet : now <= m_expire_ms[x] + MaxSleep

PunctualInv ==
  ~delayed => LockOK /\ MomentOK /\ LookedOK /\ SleepOK /\ MembersInTime
=============================================================================
