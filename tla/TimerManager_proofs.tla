-------------------------- MODULE TimerManager_proofs --------------------------
(***************************************************************************)
(* Proofs about TimerManager, for any number of threads and timers and any *)
(* times.                                                                  *)
(***************************************************************************)
EXTENDS TimerInvariant, TLAPS

-----------------------------------------------------------------------------
(* Types.                                                                  *)

LEMMA TimeoutIsNat ==
  ASSUME TimerAssumption, TypeOK, NEW ret \in Remaining
  PROVE  Timeout(getRecentTimerout(ret)) \in Nat
<1>1. \A n \in Int : ToInt(n) \in Int
  BY DEF ToInt, TimerAssumption
<1>2. ret \in Int
  BY <1>1 DEF Remaining, TimerAssumption, TypeOK
<1> QED
  BY <1>2 DEF Timeout, getRecentTimerout, TimerAssumption

LEMMA TypeStep ==
  ASSUME TimerAssumption, TypeOK, HandsOK, Next
  PROVE  TypeOK'
<1> USE DEF TypeOK, setVars, timerVars, threadVars, historyVars, Where, Go
<1>1. ASSUME NEW x \in Timers, Construct(x) PROVE TypeOK'
  BY <1>1 DEF Construct, TimerAssumption
<1>2. ASSUME NEW x \in Timers, AddTimer(x) PROVE TypeOK'
  BY <1>2 DEF AddTimer, Insert
<1>3. ASSUME NEW x \in Timers, AddTimerTick(x) PROVE TypeOK'
  BY <1>3 DEF AddTimerTick, tick
<1>4. ASSUME NEW x \in Timers, CancelFlag(x) \/ CancelCb(x) \/ CancelCycle(x)
      PROVE TypeOK'
  BY <1>4, ZenonT(60) DEF CancelFlag, CancelCb, CancelCycle
<1>5. ASSUME NEW x \in Timers, DelTimer(x) \/ DelTimerErase(x) PROVE TypeOK'
  BY <1>5 DEF DelTimer, DelTimerErase
<1>6. ASSUME NEW t \in Threads, Poll(t) PROVE TypeOK'
  <2>1. PICK ret \in Remaining :
          deadline' =
            [deadline EXCEPT ![t] = now + Timeout(getRecentTimerout(ret))]
    BY <1>6 DEF Poll
  <2>2. Timeout(getRecentTimerout(ret)) \in Nat
    BY TimeoutIsNat
  <2> QED
    BY <1>6, <2>1, <2>2 DEF Poll
<1>7. ASSUME NEW t \in Threads, WakeUp(t) \/ ReadClock(t) \/ SetProbe(t) \/ TestEmpty(t)
      PROVE TypeOK'
  BY <1>7 DEF WakeUp, ReadClock, SetProbe, TestEmpty
<1>8. ASSUME NEW t \in Threads, Take(t) PROVE TypeOK'
  BY <1>8 DEF Take, Erased
<1>9. ASSUME NEW t \in Threads, Each(t) PROVE TypeOK'
  BY <1>9 DEF Each
<1>10. ASSUME NEW t \in Threads, Copy(t) PROVE TypeOK'
  <2>1. it[t] \in Timers
    BY <1>10 DEF Copy, HandsOK
  <2>2. CASE m_cb[it[t]] = "set"
    BY <1>10, <2>1, <2>2 DEF Copy
  <2>3. CASE m_cb[it[t]] # "set"
    BY <1>10, <2>1, <2>3 DEF Copy
  <2> QED
    BY <2>2, <2>3
<1>11. ASSUME NEW t \in Threads, TestCycle(t) PROVE TypeOK'
  BY <1>11 DEF TestCycle, refresh, TimerAssumption
<1>12. ASSUME NEW t \in Threads, AddAgain(t) PROVE TypeOK'
  BY <1>12 DEF AddAgain, Insert, HandsOK
<1>13. ASSUME NEW t \in Threads, AddAgainTick(t) PROVE TypeOK'
  BY <1>13 DEF AddAgainTick, tick
<1>14. ASSUME Advance PROVE TypeOK'
  BY <1>14 DEF Advance
<1> QED
  BY <1>1, <1>2, <1>3, <1>4, <1>5, <1>6, <1>7, <1>8, <1>9, <1>10, <1>11, <1>12,
     <1>13, <1>14 DEF Next, UserStep, ThreadStep

-----------------------------------------------------------------------------
(* The inductive invariant.                                                *)

LEMMA InvariantInit ==
  ASSUME TimerAssumption, Init
  PROVE  IInv
<1>1. TypeOK
  BY DEF Init, TypeOK, Where
<1>2. \A x \in Timers, t \in Threads : ~Held(x, t)
  BY DEF Init, Held
<1>3. OneKeeper /\ HandsOK /\ CycleOK /\ FreshOK /\ DeletedOK
  BY <1>2 DEF Init, OneKeeper, HandsOK, InLoop, CycleOK, FreshOK, Absent, DeletedOK,
     TimerAssumption
<1>4. ClockOK /\ DueOK /\ FiredOK
  BY DEF Init, ClockOK, DueOK, NeverEarly, FiredOK
<1> QED
  BY <1>1, <1>3, <1>4 DEF IInv

(* A step that takes no timer into anybody's hands or out of them, except  *)
(* by erasing it from the set, and changes no time.                        *)
LEMMA HandsFrame ==
  ASSUME TimerAssumption, IInv,
         m_timerSet' \subseteq m_timerSet,
         UNCHANGED <<vec, it, m_expire_ms, fired, last>>,
         now' \in Nat, now' >= now,
         \A x \in Timers : user'[x] \in {"new", "made"} => user[x] = user'[x],
         \A t \in Threads : pc'[t] \in InLoop <=> pc[t] \in InLoop,
         \A t \in Threads, w \in {"copy", "cycle", "add"} : pc'[t] = w <=> pc[t] = w
  PROVE  OneKeeper' /\ HandsOK' /\ FreshOK' /\ FiredOK' /\ DueOK'
<1> USE DEF IInv, Held
<1>1. OneKeeper'
  BY DEF OneKeeper
<1>2. HandsOK'
  BY DEF HandsOK
<1>3. FreshOK'
  BY DEF FreshOK, Absent
<1>4. FiredOK'
  BY DEF FiredOK, WillFire
<1>5. DueOK'
  BY DEF DueOK, NeverEarly, HandsOK, TypeOK
<1> QED
  BY <1>1, <1>2, <1>3, <1>4, <1>5

(* The steps of users, but for Construct and AddTimer.                     *)
LEMMA UserFrameStep ==
  ASSUME TimerAssumption, IInv, NEW x \in Timers,
         \/ AddTimerTick(x) \/ CancelFlag(x) \/ CancelCb(x) \/ CancelCycle(x)
         \/ DelTimer(x) \/ DelTimerErase(x)
  PROVE  /\ OneKeeper' /\ HandsOK' /\ FreshOK' /\ FiredOK' /\ DueOK'
         /\ CycleOK' /\ DeletedOK' /\ ClockOK'
<1> USE DEF IInv, TypeOK, setVars, timerVars, threadVars, historyVars,
        AddTimerTick, tick, CancelFlag, CancelCb, CancelCycle, DelTimer, DelTimerErase
<1>1. OneKeeper' /\ HandsOK' /\ FreshOK' /\ FiredOK' /\ DueOK'
  <2>1. /\ m_timerSet' \subseteq m_timerSet
        /\ UNCHANGED <<vec, it, m_expire_ms, fired, last, pc, now>>
        /\ \A y \in Timers : user'[y] \in {"new", "made"} => user[y] = user'[y]
    OBVIOUS
  <2> QED
    BY <2>1, HandsFrame DEF TypeOK
<1>2. CycleOK'
  BY DEF CycleOK
<1>3. DeletedOK'
  BY DEF DeletedOK, TimerAssumption
<1>4. ClockOK'
  BY DEF ClockOK
<1> QED
  BY <1>1, <1>2, <1>3, <1>4

(* The steps of a thread outside the loop over vec, but for Take.          *)
LEMMA ThreadFrameStep ==
  ASSUME TimerAssumption, IInv, NEW t \in Threads,
         \/ Poll(t) \/ WakeUp(t) \/ ReadClock(t) \/ SetProbe(t)
         \/ TestEmpty(t) \/ AddAgainTick(t)
  PROVE  /\ OneKeeper' /\ HandsOK' /\ FreshOK' /\ FiredOK' /\ DueOK'
         /\ CycleOK' /\ DeletedOK' /\ ClockOK'
<1> USE DEF IInv, TypeOK, setVars, timerVars, threadVars, historyVars, Go,
        Poll, WakeUp, ReadClock, SetProbe, TestEmpty, AddAgainTick, tick
<1>1. OneKeeper' /\ HandsOK' /\ FreshOK' /\ FiredOK' /\ DueOK'
  <2>1. /\ UNCHANGED <<vec, it, m_expire_ms, fired, last, user, m_timerSet, now>>
        /\ \A u \in Threads : pc'[u] \in InLoop <=> pc[u] \in InLoop
        /\ \A u \in Threads, w \in {"copy", "cycle", "add"} : pc'[u] = w <=> pc[u] = w
    BY DEF InLoop
  <2> QED
    BY <2>1, HandsFrame
<1>2. CycleOK'
  BY DEF CycleOK
<1>3. DeletedOK'
  BY DEF DeletedOK, TimerAssumption
<1>4. ClockOK'
  BY DEF ClockOK
<1> QED
  BY <1>1, <1>2, <1>3, <1>4

LEMMA AdvanceStep ==
  ASSUME TimerAssumption, IInv, Advance
  PROVE  /\ OneKeeper' /\ HandsOK' /\ FreshOK' /\ FiredOK' /\ DueOK'
         /\ CycleOK' /\ DeletedOK' /\ ClockOK'
<1> USE DEF IInv, TypeOK, setVars, timerVars, threadVars, historyVars, Advance
<1>1. OneKeeper' /\ HandsOK' /\ FreshOK' /\ FiredOK' /\ DueOK'
  BY HandsFrame
<1>2. CycleOK' /\ DeletedOK' /\ ClockOK'
  BY DEF CycleOK, DeletedOK, ClockOK
<1> QED
  BY <1>1, <1>2

(* Only the time of a timer that is nowhere changes.                       *)
LEMMA ConstructStep ==
  ASSUME TimerAssumption, IInv, NEW x \in Timers, Construct(x)
  PROVE  /\ OneKeeper' /\ HandsOK' /\ FreshOK' /\ FiredOK' /\ DueOK'
         /\ CycleOK' /\ DeletedOK' /\ ClockOK'
<1> USE DEF IInv, TypeOK, setVars, timerVars, threadVars, historyVars, Go, Construct
<1>1. OneKeeper'
  BY DEF OneKeeper, Held
<1>2. HandsOK'
  BY DEF HandsOK, InLoop
<1>3. FreshOK'
  BY DEF FreshOK, Absent, Held
<1>4. FiredOK'
  BY DEF FiredOK, WillFire, FreshOK, Absent, Held
<1>5. DueOK'
  BY DEF DueOK, NeverEarly, HandsOK, FreshOK, Absent, Held
<1>6. CycleOK'
  BY DEF CycleOK
<1>7. DeletedOK'
  BY DEF DeletedOK, TimerAssumption
<1>8. ClockOK'
  BY DEF ClockOK
<1> QED
  BY <1>1, <1>2, <1>3, <1>4, <1>5, <1>6, <1>7, <1>8

(* The timer goes from nowhere into the set.                               *)
LEMMA AddTimerStep ==
  ASSUME TimerAssumption, IInv, NEW x \in Timers, AddTimer(x)
  PROVE  /\ OneKeeper' /\ HandsOK' /\ FreshOK' /\ FiredOK' /\ DueOK'
         /\ CycleOK' /\ DeletedOK' /\ ClockOK'
<1> USE DEF IInv, TypeOK, setVars, timerVars, threadVars, historyVars, Go, AddTimer, Insert
<1>1. OneKeeper'
  BY DEF OneKeeper, Held, FreshOK, Absent
<1>2. HandsOK'
  BY DEF HandsOK, InLoop
<1>3. FreshOK'
  BY DEF FreshOK, Absent, Held
<1>4. FiredOK'
  BY DEF FiredOK, WillFire, FreshOK
<1>5. DueOK'
  BY DEF DueOK, NeverEarly, HandsOK
<1>6. CycleOK'
  BY DEF CycleOK
<1>7. DeletedOK'
  BY DEF DeletedOK, TimerAssumption
<1>8. ClockOK'
  BY DEF ClockOK
<1> QED
  BY <1>1, <1>2, <1>3, <1>4, <1>5, <1>6, <1>7, <1>8

(* What is due goes from the set into the hands of t, which were empty.    *)
LEMMA TakeStep ==
  ASSUME TimerAssumption, IInv, NEW t \in Threads, Take(t)
  PROVE  /\ OneKeeper' /\ HandsOK' /\ FreshOK' /\ FiredOK' /\ DueOK'
         /\ CycleOK' /\ DeletedOK' /\ ClockOK'
<1> USE DEF IInv, TypeOK, setVars, timerVars, threadVars, historyVars, Go, Take, Erased
<1>1. OneKeeper'
  BY DEF OneKeeper, Held, HandsOK, InLoop
<1>2. HandsOK'
  BY DEF HandsOK, InLoop
<1>3. FreshOK'
  BY DEF FreshOK, Absent, Held, HandsOK, InLoop
<1>4. FiredOK'
  BY DEF FiredOK, WillFire, HandsOK, InLoop
<1>5. DueOK'
  BY DEF DueOK, NeverEarly, HandsOK, Due, ClockOK, InLoop
<1>6. CycleOK'
  BY DEF CycleOK
<1>7. DeletedOK'
  BY DEF DeletedOK, TimerAssumption
<1>8. ClockOK'
  BY DEF ClockOK
<1> QED
  BY <1>1, <1>2, <1>3, <1>4, <1>5, <1>6, <1>7, <1>8

(* One timer goes from vec into it, or is dropped.                         *)
LEMMA EachStep ==
  ASSUME TimerAssumption, IInv, NEW t \in Threads, Each(t)
  PROVE  /\ OneKeeper' /\ HandsOK' /\ FreshOK' /\ FiredOK' /\ DueOK'
         /\ CycleOK' /\ DeletedOK' /\ ClockOK'
<1> USE DEF IInv, TypeOK, setVars, timerVars, threadVars, historyVars, Go, Each
<1>1. OneKeeper'
  <2>1. ASSUME NEW y \in Timers, NEW u \in Threads, Held(y, u)'
        PROVE  Held(y, u)
    <3>1. CASE vec[t] = {}
      BY <2>1, <3>1 DEF Held
    <3>2. CASE vec[t] # {}
      BY <2>1, <3>2 DEF Held
    <3> QED
      BY <3>1, <3>2
  <2>2. m_timerSet' = m_timerSet
    OBVIOUS
  <2> QED
    BY <2>1, <2>2 DEF OneKeeper
<1>2. HandsOK'
  BY DEF HandsOK, InLoop
<1>3. FreshOK'
  BY DEF FreshOK, Absent, Held
<1>4. FiredOK'
  BY DEF FiredOK, WillFire
<1>5. DueOK'
  BY DEF DueOK, NeverEarly, HandsOK
<1>6. CycleOK'
  BY DEF CycleOK
<1>7. DeletedOK'
  BY DEF DeletedOK, TimerAssumption
<1>8. ClockOK'
  BY DEF ClockOK
<1> QED
  BY <1>1, <1>2, <1>3, <1>4, <1>5, <1>6, <1>7, <1>8

(* The timer in hand fires: it is in no other place.                       *)
LEMMA CopyStep ==
  ASSUME TimerAssumption, IInv, NEW t \in Threads, Copy(t)
  PROVE  /\ OneKeeper' /\ HandsOK' /\ FreshOK' /\ FiredOK' /\ DueOK'
         /\ CycleOK' /\ DeletedOK' /\ ClockOK'
<1> USE DEF IInv, TypeOK, setVars, timerVars, threadVars, historyVars, Go, Copy
<1>1. OneKeeper'
  BY DEF OneKeeper, Held
<1>2. HandsOK'
  BY DEF HandsOK, InLoop
<1>3. FreshOK'
  BY DEF FreshOK, Absent, Held, HandsOK
<1>4. FiredOK'
  <2>1. it[t] \in Timers /\ WillFire(it[t])
    BY DEF WillFire, HandsOK
  <2>2. ~WillFire(it[t])'
    BY <2>1 DEF WillFire, HandsOK, OneKeeper, Held
  <2>3. \A y \in Timers : WillFire(y)' => WillFire(y)
    BY DEF WillFire
  <2>4. \A y \in Timers \ {it[t]} : fired'[y] = fired[y] /\ last'[y] = last[y]
    BY <2>1
  <2>5. it[t] \notin Cyclic => fired[it[t]] = 0
    BY <2>1 DEF FiredOK
  <2>6. it[t] \notin Cyclic => fired'[it[t]] <= 1
    BY <2>1, <2>5
  <2> QED
    BY <2>1, <2>2, <2>3, <2>4, <2>6 DEF FiredOK
<1>5. DueOK'
  BY DEF DueOK, NeverEarly, HandsOK
<1>6. CycleOK'
  BY DEF CycleOK
<1>7. DeletedOK'
  BY DEF DeletedOK, TimerAssumption
<1>8. ClockOK'
  BY DEF ClockOK, HandsOK
<1> QED
  BY <1>1, <1>2, <1>3, <1>4, <1>5, <1>6, <1>7, <1>8

(* The timer in hand gets its new time or is dropped.                      *)
LEMMA TestCycleStep ==
  ASSUME TimerAssumption, IInv, NEW t \in Threads, TestCycle(t)
  PROVE  /\ OneKeeper' /\ HandsOK' /\ FreshOK' /\ FiredOK' /\ DueOK'
         /\ CycleOK' /\ DeletedOK' /\ ClockOK'
<1> USE DEF IInv, TypeOK, setVars, timerVars, threadVars, historyVars, Go, TestCycle, Repeats, refresh
<1>1. OneKeeper'
  BY SMTT(30) DEF OneKeeper, Held
<1>2. HandsOK'
  BY DEF HandsOK, InLoop, CycleOK
<1>3. FreshOK'
  BY DEF FreshOK, Absent, Held
<1>4. FiredOK'
  BY DEF FiredOK, WillFire, HandsOK, OneKeeper, Held, ClockOK, CycleOK, TimerAssumption
<1>5. DueOK'
  <2>1. it[t] \in Timers /\ Held(it[t], t) /\ it[t] \notin vec[t]
    BY DEF HandsOK, Held
  <2>2. \A u \in Threads : Held(it[t], u) => u = t
    BY <2>1 DEF OneKeeper
  <2>3. \A y \in Timers \ {it[t]} : m_expire_ms'[y] = m_expire_ms[y]
    BY <2>1
  <2>4. NeverEarly'
    <3>1. \A u \in Threads : it[t] \notin vec[u]
      BY <2>1, <2>2 DEF Held
    <3> QED
      BY <2>3, <3>1 DEF DueOK, NeverEarly
  <2>5. \A u \in Threads : pc'[u] = "copy" =>
           pc[u] = "copy" /\ it[u] \in Timers \ {it[t]}
    BY <2>1, <2>2 DEF HandsOK, Held
  <2>6. \A u \in Threads : pc'[u] = "copy" => m_expire_ms'[it[u]] <= now
    BY <2>3, <2>5 DEF DueOK
  <2> QED
    BY <2>4, <2>6 DEF DueOK
<1>6. CycleOK'
  BY DEF CycleOK
<1>7. DeletedOK'
  BY DEF DeletedOK, TimerAssumption
<1>8. ClockOK'
  BY DEF ClockOK
<1> QED
  BY <1>1, <1>2, <1>3, <1>4, <1>5, <1>6, <1>7, <1>8

(* The timer goes back into the set, unless it was cancelled.              *)
LEMMA AddAgainStep ==
  ASSUME TimerAssumption, IInv, NEW t \in Threads, AddAgain(t)
  PROVE  /\ OneKeeper' /\ HandsOK' /\ FreshOK' /\ FiredOK' /\ DueOK'
         /\ CycleOK' /\ DeletedOK' /\ ClockOK'
<1> USE DEF IInv, TypeOK, setVars, timerVars, threadVars, historyVars, Go, AddAgain, Insert
<1>1. OneKeeper'
  BY DEF OneKeeper, Held, HandsOK
<1>2. HandsOK'
  BY DEF HandsOK, InLoop
<1>3. FreshOK'
  BY DEF FreshOK, Absent, Held, HandsOK
<1>4. FiredOK'
  BY DEF FiredOK, WillFire, HandsOK
<1>5. DueOK'
  BY DEF DueOK, NeverEarly, HandsOK
<1>6. CycleOK'
  BY DEF CycleOK
<1>7. DeletedOK'
  BY DEF DeletedOK, TimerAssumption, HandsOK
<1>8. ClockOK'
  BY DEF ClockOK
<1> QED
  BY <1>1, <1>2, <1>3, <1>4, <1>5, <1>6, <1>7, <1>8
LEMMA InvariantStep ==
  ASSUME TimerAssumption, IInv, [Next]_vars
  PROVE  IInv'
<1>1. CASE UNCHANGED vars
  BY <1>1 DEF vars, setVars, timerVars, threadVars, historyVars, IInv, TypeOK,
     OneKeeper, Held, HandsOK, CycleOK, FreshOK, Absent, DeletedOK, ClockOK,
     DueOK, NeverEarly, FiredOK, WillFire
<1>2. CASE Next
  <2>1. TypeOK'
    BY <1>2, TypeStep DEF IInv
  <2>2. /\ OneKeeper' /\ HandsOK' /\ FreshOK' /\ FiredOK' /\ DueOK'
        /\ CycleOK' /\ DeletedOK' /\ ClockOK'
    <3>1. CASE \E x \in Timers : UserStep(x)
      BY <3>1, ConstructStep, AddTimerStep, UserFrameStep DEF UserStep
    <3>2. CASE \E t \in Threads : ThreadStep(t)
      BY <3>2, ThreadFrameStep, TakeStep, EachStep, CopyStep, TestCycleStep,
         AddAgainStep DEF ThreadStep
    <3>3. CASE Advance
      BY <3>3, AdvanceStep
    <3> QED
      BY <1>2, <3>1, <3>2, <3>3 DEF Next
  <2> QED
    BY <2>1, <2>2 DEF IInv
<1> QED
  BY <1>1, <1>2

-----------------------------------------------------------------------------
(* Timers, IOManager::idleFun and the users of timers keep every part of   *)
(* the inductive invariant.                                                *)
THEOREM TimerInvariantHolds ==
  ASSUME TimerAssumption
  PROVE  Spec => []IInv
<1>1. Init => IInv
  BY InvariantInit
<1>2. IInv /\ [Next]_vars => IInv'
  BY InvariantStep
<1> QED
  BY <1>1, <1>2, PTL DEF Spec

(* Every variable keeps its type; the timeout epoll_wait gets is never     *)
(* negative although m_expire_ms - now is narrowed to an int.              *)
THEOREM TimersTypeCorrect ==
  ASSUME TimerAssumption
  PROVE  Spec => []TypeOK
<1>1. IInv => TypeOK
  BY DEF IInv
<1> QED
  BY <1>1, TimerInvariantHolds, PTL

(* A timer is in m_timerSet or in the hands of one thread that runs        *)
(* listTimeroutCallback, never in two places.                              *)
THEOREM TimersHaveOneKeeper ==
  ASSUME TimerAssumption
  PROVE  Spec => []OneKeeper
<1>1. IInv => OneKeeper
  BY DEF IInv
<1> QED
  BY <1>1, TimerInvariantHolds, PTL

(* What listTimeroutCallback takes is due, although all threads write the  *)
(* shared m_timer without a lock.                                          *)
THEOREM TimersNeverEarly ==
  ASSUME TimerAssumption
  PROVE  Spec => []NeverEarly
<1>1. IInv => NeverEarly
  BY DEF IInv, DueOK
<1> QED
  BY <1>1, TimerInvariantHolds, PTL

(* The callback of a timer without cycle is collected at most once.        *)
THEOREM OneShotsFireOnce ==
  ASSUME TimerAssumption
  PROVE  Spec => []OneShotFiresOnce
<1>1. IInv => OneShotFiresOnce
  BY DEF IInv, FiredOK, OneShotFiresOnce
<1> QED
  BY <1>1, TimerInvariantHolds, PTL

(* After delTimer() no thread's addTimer puts the timer back.              *)
THEOREM DeletedTimersStayOut ==
  ASSUME TimerAssumption
  PROVE  Spec => []DeletedStaysOut
<1>1. IInv => DeletedStaysOut
  BY DEF IInv, DeletedOK, DeletedStaysOut
<1> QED
  BY <1>1, TimerInvariantHolds, PTL

(* refresh() never changes the time of a timer that is in m_timerSet.      *)
THEOREM KeysOfMembersStable ==
  ASSUME TimerAssumption
  PROVE  Spec => KeysStable
<1>1. IInv /\ [Next]_vars =>
        [\A x \in m_timerSet : x \in m_timerSet' => m_expire_ms'[x] = m_expire_ms[x]]_vars
  <2> SUFFICES ASSUME IInv, Next, NEW x \in m_timerSet
               PROVE  m_expire_ms'[x] = m_expire_ms[x]
    OBVIOUS
  <2> USE DEF IInv, TypeOK, setVars, timerVars, threadVars, historyVars, Go
  <2>1. ASSUME NEW y \in Timers, UserStep(y)
        PROVE  m_expire_ms'[x] = m_expire_ms[x]
    BY <2>1 DEF UserStep, Construct, AddTimer, AddTimerTick, CancelFlag, CancelCb,
       CancelCycle, DelTimer, DelTimerErase, FreshOK, Absent
  <2>2. ASSUME NEW t \in Threads, ThreadStep(t), ~TestCycle(t)
        PROVE  m_expire_ms'[x] = m_expire_ms[x]
    BY <2>2 DEF ThreadStep, Poll, WakeUp, ReadClock, SetProbe, TestEmpty, Take, Each,
       Copy, AddAgain, AddAgainTick
  <2>3. ASSUME NEW t \in Threads, TestCycle(t)
        PROVE  m_expire_ms'[x] = m_expire_ms[x]
    <3>1. it[t] # x
      BY <2>3 DEF TestCycle, OneKeeper, Held
    <3> QED
      BY <2>3, <3>1 DEF TestCycle, refresh
  <2>4. CASE Advance
    BY <2>4 DEF Advance
  <2> QED
    BY <2>1, <2>2, <2>3, <2>4 DEF Next
<1> QED
  BY <1>1, TimerInvariantHolds, PTL DEF Spec, KeysStable

(* The callback of a cyclic timer is not collected twice within a period.  *)
THEOREM PeriodIsKept ==
  ASSUME TimerAssumption
  PROVE  Spec => PeriodKept
<1>1. IInv /\ [Next]_vars =>
        [\A x \in Timers :
           (fired[x] > 0 /\ fired'[x] > fired[x]) => now - last[x] >= Ms[x]]_vars
  <2> SUFFICES ASSUME IInv, Next, NEW x \in Timers, fired[x] > 0, fired'[x] > fired[x]
               PROVE  now - last[x] >= Ms[x]
    OBVIOUS
  <2> USE DEF IInv, TypeOK, setVars, timerVars, threadVars, historyVars, Go
  <2>1. ~Advance /\ \A y \in Timers : ~UserStep(y)
    BY DEF Advance, UserStep, Construct, AddTimer, AddTimerTick, CancelFlag, CancelCb,
       CancelCycle, DelTimer, DelTimerErase
  <2>2. PICK t \in Threads : ThreadStep(t)
    BY <2>1 DEF Next
  <2>3. Copy(t)
    BY <2>2 DEF ThreadStep, Poll, WakeUp, ReadClock, SetProbe, TestEmpty, Take, Each,
       TestCycle, AddAgain, AddAgainTick
  <2>4. it[t] = x
    BY <2>3 DEF Copy, HandsOK
  <2>5. m_expire_ms[x] <= now /\ WillFire(x)
    BY <2>3, <2>4 DEF Copy, DueOK, WillFire
  <2>6. m_expire_ms[x] >= last[x] + Ms[x]
    BY <2>5 DEF FiredOK
  <2> QED
    BY <2>5, <2>6 DEF TimerAssumption
<1> QED
  BY <1>1, TimerInvariantHolds, PTL DEF Spec, PeriodKept

-----------------------------------------------------------------------------
(* How late a timer may be.                                                *)

Punctual == LockOK /\ MomentOK /\ LookedOK /\ SleepOK /\ MembersInTime

(* The timeout of epoll_wait is at most MaxSleep, and 0 when the first     *)
(* timer is overdue: the difference fits into an int then.                 *)
LEMMA TimeoutBounds ==
  ASSUME TimerAssumption, TypeOK, MaxSleep <= IntMax, MembersInTime,
         NEW ret \in Remaining
  PROVE  /\ Timeout(getRecentTimerout(ret)) \in 0..MaxSleep
         /\ (\E x \in m_timerSet : m_expire_ms[x] < now) =>
              Timeout(getRecentTimerout(ret)) = 0
<1>0. /\ MaxSleep \in Nat /\ MaxSleep # 0 /\ IntMax \in Nat /\ now \in Nat
      /\ m_expire_ms \in [Timers -> Nat] /\ m_timerSet \subseteq Timers
  BY DEF TimerAssumption, TypeOK
<1>1. \A n \in Int : ToInt(n) \in Int
  BY <1>0 DEF ToInt
<1>2. ret \in Int
  BY <1>0, <1>1 DEF Remaining
<1>3. Timeout(getRecentTimerout(ret)) \in 0..MaxSleep
  BY <1>0, <1>2 DEF Timeout, getRecentTimerout
<1>4. ASSUME NEW x \in m_timerSet, m_expire_ms[x] < now
      PROVE  Timeout(getRecentTimerout(ret)) = 0
  <2>1. PICK y \in m_timerSet : /\ ret = ToInt(m_expire_ms[y] - now)
                                /\ m_expire_ms[y] <= m_expire_ms[x]
    BY <1>4 DEF Remaining
  <2>2. now <= m_expire_ms[y] + MaxSleep
    BY DEF MembersInTime
  <2>3. PICK n \in Int : n = m_expire_ms[y] - now
    BY <1>0
  <2>4. n < 0 /\ n >= -(IntMax + 1)
    BY <1>0, <1>4, <2>1, <2>2, <2>3
  <2>5. n % (2 * (IntMax + 1)) = n + 2 * (IntMax + 1)
    <3>1. PICK m \in Nat : m = 2 * (IntMax + 1)
      BY <1>0
    <3>2. m > 0 /\ 0 <= n + m /\ n + m < m
      BY <1>0, <2>4, <3>1
    <3>3. n % m = n + m
      BY <3>2
    <3> QED
      BY <3>1, <3>3
  <2>6. ret = n
    BY <1>0, <2>1, <2>3, <2>4, <2>5 DEF ToInt
  <2> QED
    BY <1>0, <2>4, <2>6 DEF Timeout, getRecentTimerout
<1> QED
  BY <1>3, <1>4

LEMMA UserPunctual ==
  ASSUME TimerAssumption, IInv, Punctual, NEW x \in Timers, UserStep(x)
  PROVE  Punctual'
<1> USE DEF IInv, TypeOK, setVars, timerVars, threadVars, historyVars, Punctual
<1>0. now \in Nat /\ MaxSleep \in Nat /\ x \notin Threads /\ Free \notin Threads
  BY DEF TimerAssumption
<1>1. CASE Construct(x)
  <2>1. /\ m_expire_ms'[x] >= now /\ x \notin m_timerSet
        /\ \A y \in Timers \ {x} : m_expire_ms'[y] = m_expire_ms[y]
        /\ \A y \in Timers \ {x} : user'[y] = user[y]
        /\ UNCHANGED <<now, lock, m_timerSet, pc, deadline, stamp, it, m_timer>>
    BY <1>1 DEF Construct, FreshOK, Absent, TimerAssumption
  <2>2. \A t \in Threads : pc[t] = "add" => it[t] \in Timers /\ it[t] # x
    BY <1>1 DEF Construct, FreshOK, Absent, Held, HandsOK
  <2> QED
    BY <2>1, <2>2 DEF LockOK, MomentOK, LookedOK, SleepOK, MembersInTime
<1>2. CASE AddTimer(x)
  <2>1. /\ lock' \in {x, Free} /\ m_timerSet' \subseteq m_timerSet \cup {x}
        /\ m_expire_ms[x] >= now
        /\ \A y \in Timers : user'[y] = "made" => user[y] = "made"
        /\ UNCHANGED <<now, m_expire_ms, pc, deadline, stamp, it, m_timer>>
    BY <1>2 DEF AddTimer, Insert, MomentOK
  <2> QED
    BY <1>0, <2>1 DEF LockOK, MomentOK, LookedOK, SleepOK, MembersInTime
<1>3. CASE \/ AddTimerTick(x) \/ CancelFlag(x) \/ CancelCb(x) \/ CancelCycle(x)
           \/ DelTimer(x) \/ DelTimerErase(x)
  <2>1. /\ lock' \in {lock, x, Free} /\ m_timerSet' \subseteq m_timerSet
        /\ \A y \in Timers : user'[y] = "made" => user[y] = "made"
        /\ UNCHANGED <<now, m_expire_ms, pc, deadline, stamp, it, m_timer>>
    BY <1>3 DEF AddTimerTick, tick, CancelFlag, CancelCb, CancelCycle, DelTimer,
                DelTimerErase
  <2> QED
    BY <1>0, <2>1 DEF LockOK, MomentOK, LookedOK, SleepOK, MembersInTime
<1> QED
  BY <1>1, <1>2, <1>3 DEF UserStep

(* The steps of a thread that neither read nor change a timer of the set.  *)
LEMMA RoundPunctual ==
  ASSUME TimerAssumption, IInv, Punctual, NEW t \in Threads,
         WakeUp(t) \/ ReadClock(t) \/ SetProbe(t) \/ TestEmpty(t) \/ Each(t)
           \/ Copy(t) \/ AddAgainTick(t)
  PROVE  Punctual'
<1> USE DEF IInv, TypeOK, setVars, timerVars, threadVars, historyVars, Punctual,
            Go, Where
<1>0. /\ now \in Nat /\ Free \notin Threads
      /\ UNCHANGED <<now, m_timerSet, m_expire_ms, user>>
  BY DEF TimerAssumption, WakeUp, ReadClock, SetProbe, TestEmpty, Each, Copy,
         AddAgainTick, tick
<1>1. /\ LockOK' /\ MembersInTime'
      /\ \A u \in Threads \ {t} : /\ pc'[u] = pc[u] /\ it'[u] = it[u]
                                  /\ stamp'[u] = stamp[u]
                                  /\ deadline'[u] = deadline[u]
  BY <1>0
  DEF WakeUp, ReadClock, SetProbe, TestEmpty, Each, Copy, AddAgainTick, tick,
      LockOK, MembersInTime
<1>2. SleepOK'
  BY <1>0, <1>1
  DEF WakeUp, ReadClock, SetProbe, TestEmpty, Each, Copy, AddAgainTick, SleepOK
<1>3. /\ m_timer' = m_timer \/ m_timer' = now
      /\ pc'[t] \in {"probe", "empty", "take"} => stamp'[t] = now
      /\ pc'[t] \in {"empty", "take"} => m_timer' = now
      /\ pc'[t] # "add"
  BY <1>0
  DEF WakeUp, ReadClock, SetProbe, TestEmpty, Each, Copy, AddAgainTick, MomentOK
<1>4. MomentOK'
  BY <1>0, <1>1, <1>3 DEF MomentOK
<1>5. LookedOK'
  BY <1>0, <1>1
  DEF WakeUp, ReadClock, SetProbe, TestEmpty, Each, Copy, AddAgainTick, LookedOK
<1> QED
  BY <1>1, <1>2, <1>4, <1>5

LEMMA PollPunctual ==
  ASSUME TimerAssumption, MaxSleep <= IntMax, IInv, Punctual, NEW t \in Threads,
         Poll(t)
  PROVE  Punctual'
<1> USE DEF IInv, TypeOK, setVars, timerVars, threadVars, historyVars, Punctual,
            Go, Where
<1>0. /\ now \in Nat /\ MaxSleep \in Nat
      /\ UNCHANGED <<now, lock, m_timerSet, m_expire_ms, user, stamp, it, m_timer>>
      /\ pc[t] = "poll" /\ pc' = [pc EXCEPT ![t] = "asleep"]
  BY DEF TimerAssumption, Poll
<1>1. PICK ms \in 0..MaxSleep :
        /\ deadline' = [deadline EXCEPT ![t] = now + ms]
        /\ (\E x \in m_timerSet : m_expire_ms[x] < now) => ms = 0
  BY TimeoutBounds DEF Poll
<1>2. /\ deadline'[t] <= now + MaxSleep
      /\ \A x \in m_timerSet : deadline'[t] <= m_expire_ms[x] + MaxSleep
  <2>1. ASSUME NEW x \in m_timerSet
        PROVE  now + ms <= m_expire_ms[x] + MaxSleep
    <3>1. m_expire_ms[x] \in Nat
      OBVIOUS
    <3>2. CASE m_expire_ms[x] < now
      BY <1>0, <1>1, <3>1, <3>2 DEF MembersInTime
    <3>3. CASE ~(m_expire_ms[x] < now)
      BY <1>0, <1>1, <3>1, <3>3
    <3> QED
      BY <3>2, <3>3
  <2> QED
    BY <1>0, <1>1, <2>1
<1>3. SleepOK'
  BY <1>0, <1>1, <1>2 DEF SleepOK
<1>4. LockOK' /\ MomentOK' /\ LookedOK' /\ MembersInTime'
  BY <1>0 DEF LockOK, MomentOK, LookedOK, MembersInTime
<1> QED
  BY <1>3, <1>4

LEMMA TakePunctual ==
  ASSUME TimerAssumption, IInv, Punctual, NEW t \in Threads, Take(t)
  PROVE  Punctual'
<1> USE DEF IInv, TypeOK, setVars, timerVars, threadVars, historyVars, Punctual,
            Go, Where
<1>0. /\ now \in Nat /\ m_timerSet' \subseteq m_timerSet
      /\ UNCHANGED <<now, lock, m_expire_ms, user, deadline, stamp, it, m_timer>>
      /\ pc[t] = "take" /\ pc' = [pc EXCEPT ![t] = "each"]
  BY DEF Take
<1>1. \A x \in m_timerSet' : m_expire_ms[x] >= now
  BY <1>0 DEF Take, Due, Erased, MomentOK
<1> QED
  BY <1>0, <1>1 DEF LockOK, MomentOK, LookedOK, SleepOK, MembersInTime

LEMMA RefreshPunctual ==
  ASSUME TimerAssumption, IInv, Punctual, NEW t \in Threads,
         TestCycle(t) \/ AddAgain(t)
  PROVE  Punctual'
<1> USE DEF IInv, TypeOK, setVars, timerVars, threadVars, historyVars, Punctual,
            Go, Where
<1>0. /\ now \in Nat /\ MaxSleep \in Nat /\ Free \notin Threads
      /\ it[t] \in Timers /\ Ms[it[t]] \in Nat
  BY DEF TimerAssumption, HandsOK, TestCycle, AddAgain
<1>1. CASE TestCycle(t)
  <2>1. /\ it[t] \notin m_timerSet
        /\ \A u \in Threads \ {t} : pc[u] = "add" => it[u] # it[t]
    BY <1>0, <1>1 DEF TestCycle, OneKeeper, Held
  <2>2. /\ m_expire_ms'[it[t]] >= now \/ m_expire_ms'[it[t]] = m_expire_ms[it[t]]
        /\ pc'[t] = "add" => m_expire_ms'[it[t]] >= now
        /\ pc'[t] \in {"add", "each"} /\ pc[t] = "cycle"
        /\ \A u \in Threads \ {t} : pc'[u] = pc[u]
        /\ \A y \in Timers \ {it[t]} : m_expire_ms'[y] = m_expire_ms[y]
        /\ UNCHANGED <<now, lock, m_timerSet, user, deadline, stamp, it, m_timer>>
    BY <1>0, <1>1 DEF TestCycle, refresh
  <2>3. \A u \in Threads : pc'[u] = "add" => it[u] \in Timers
    BY <1>0, <2>2 DEF HandsOK
  <2>4. MomentOK'
    BY <1>0, <2>1, <2>2, <2>3 DEF MomentOK
  <2> QED
    BY <2>1, <2>2, <2>4 DEF LockOK, LookedOK, SleepOK, MembersInTime
<1>2. CASE AddAgain(t)
  <2>1. /\ lock = Free /\ lock' \in {t, Free} /\ pc[t] = "add"
        /\ m_timerSet' \subseteq m_timerSet \cup {it[t]}
        /\ m_expire_ms[it[t]] >= now
        /\ pc'[t] \in {"tick", "each"} /\ lock' = t => pc'[t] = "tick"
        /\ \A u \in Threads \ {t} : pc'[u] = pc[u]
        /\ UNCHANGED <<now, m_expire_ms, user, deadline, stamp, it, m_timer>>
    BY <1>0, <1>2 DEF AddAgain, Insert, MomentOK
  <2>2. pc'[t] \in {"tick", "each"} /\ (lock' = t => pc'[t] = "tick")
    BY <1>2 DEF AddAgain
  <2> QED
    BY <1>0, <2>1, <2>2 DEF LockOK, MomentOK, LookedOK, SleepOK, MembersInTime
<1> QED
  BY <1>1, <1>2

(* Time passes when every thread sleeps on: had one a deadline now, or an  *)
(* overdue timer it has not looked for, it would not.                      *)
LEMMA AdvancePunctual ==
  ASSUME TimerAssumption, Threads # {}, IInv, Punctual, Advance, ~delayed'
  PROVE  Punctual'
<1> USE DEF IInv, TypeOK, setVars, timerVars, threadVars, historyVars, Punctual,
            Go, Where
<1>0. /\ now \in Nat /\ MaxSleep \in Nat /\ MaxSleep # 0 /\ now' = now + 1
      /\ UNCHANGED <<lock, m_timerSet, m_expire_ms, user, pc, deadline, stamp, it,
                     m_timer>>
      /\ \A t \in Threads : ~Busy(t)
      /\ \A x \in Timers : ~UserBusy(x) /\ user[x] # "tick"
      /\ \A t \in Threads : pc[t] # "tick"
  BY DEF TimerAssumption, Advance, SomebodyBusy, BeforeTick
<1>1. lock = Free
  <2>1. lock \notin Timers
    BY <1>0 DEF UserBusy
  <2>2. lock \notin Threads
    BY <1>0 DEF LockOK, Busy
  <2> QED
    BY <2>1, <2>2
<1>2. \A t \in Threads : pc[t] = "asleep" /\ (deadline[t] > now \/ stamp[t] = now)
  BY <1>0, <1>1 DEF Busy, ClockOK
<1>3. \A x \in Timers : user[x] # "made"
  BY <1>0, <1>1 DEF UserBusy
<1>4. MembersInTime'
  <2>1. ASSUME NEW x \in m_timerSet PROVE now + 1 <= m_expire_ms[x] + MaxSleep
    <3>1. PICK t \in Threads :
            pc[t] = "asleep" /\ (deadline[t] > now \/ stamp[t] = now)
      BY <1>2
    <3>2. m_expire_ms[x] \in Nat /\ deadline[t] \in Nat
      OBVIOUS
    <3>3. CASE deadline[t] > now
      BY <1>0, <3>1, <3>2, <3>3 DEF SleepOK
    <3>4. CASE stamp[t] = now
      <4>1. m_expire_ms[x] >= now
        BY <3>1, <3>4 DEF LookedOK
      <4> QED
        BY <1>0, <3>2, <4>1
    <3> QED
      BY <3>1, <3>3, <3>4
  <2> QED
    BY <1>0, <2>1 DEF MembersInTime
<1>5. LookedOK'
  <2>1. \A t \in Threads : stamp[t] # now + 1
    BY <1>0 DEF ClockOK
  <2> QED
    BY <1>0, <2>1 DEF LookedOK
<1>6. SleepOK'
  BY <1>0 DEF SleepOK
<1>7. LockOK' /\ MomentOK'
  BY <1>0, <1>2, <1>3 DEF LockOK, MomentOK
<1> QED
  BY <1>4, <1>5, <1>6, <1>7

LEMMA DelayStays ==
  ASSUME IInv, [Next]_vars, ~delayed'
  PROVE  ~delayed
BY DEF IInv, TypeOK, Next, UserStep, ThreadStep, Construct, AddTimer, AddTimerTick,
       CancelFlag, CancelCb, CancelCycle, DelTimer, DelTimerErase, Poll, WakeUp,
       ReadClock, SetProbe, TestEmpty, Take, Each, Copy, TestCycle, AddAgain,
       AddAgainTick, Advance, vars, historyVars

(* As long as time passed only while no thread or user had a step to take  *)
(* and none was blocked by a full pipe, no timer in the set, cancelled or  *)
(* not, is late by more than the longest sleep of idleFun - although       *)
(* threads overwrite each other's m_timer and the time left is narrowed to *)
(* an int.                                                                 *)
THEOREM TimersNotLate ==
  ASSUME TimerAssumption, Threads # {}, MaxSleep <= IntMax
  PROVE  Spec => []NotLate
<1>1. Init => PunctualInv
  BY DEF Init, PunctualInv, LockOK, MomentOK, LookedOK, SleepOK, MembersInTime,
         TimerAssumption
<1>2. IInv /\ PunctualInv /\ [Next]_vars => PunctualInv'
  <2> SUFFICES ASSUME IInv, PunctualInv, [Next]_vars, ~delayed'
               PROVE  Punctual'
    BY DEF PunctualInv, Punctual
  <2>1. ~delayed /\ Punctual
    BY DelayStays DEF PunctualInv, Punctual
  <2>2. CASE UNCHANGED vars
    BY <2>1, <2>2
    DEF vars, setVars, timerVars, threadVars, Punctual, LockOK, MomentOK, LookedOK,
        SleepOK, MembersInTime
  <2>3. CASE Next
    BY <2>1, <2>3, UserPunctual, RoundPunctual, PollPunctual, TakePunctual,
       RefreshPunctual, AdvancePunctual
    DEF Next, ThreadStep
  <2> QED
    BY <2>2, <2>3
<1>3. PunctualInv => NotLate
  BY DEF PunctualInv, MembersInTime, NotLate, NeverOverdue
<1> QED
  BY <1>1, <1>2, <1>3, TimerInvariantHolds, PTL DEF Spec
================================================================================
