--------------------------- MODULE Scheduler_proofs ---------------------------
(***************************************************************************)
(* Lemmas about Scheduler that the proofs of every module that extends it  *)
(* need: what the two operations on m_fibers do to its entries, and that   *)
(* the actions of the loop keep the variables of Scheduler well typed.     *)
(***************************************************************************)
EXTENDS Scheduler, SequenceTheorems, TLAPS

(* push_back: the old entries keep their places, the new one is last.      *)
LEMMA AppendEntry ==
  ASSUME NEW S, NEW s \in Seq(S), NEW e \in S
  PROVE  /\ Append(s, e) \in Seq(S)
         /\ DOMAIN s = 1..Len(s)
         /\ DOMAIN Append(s, e) = 1..(Len(s) + 1)
         /\ \A i \in 1..Len(s) : Append(s, e)[i] = s[i]
         /\ Append(s, e)[Len(s) + 1] = e
  OBVIOUS

(* erase: the entries behind the erased one move up.                       *)
LEMMA RemoveEntry ==
  ASSUME NEW S, NEW s \in Seq(S), NEW i \in 1..Len(s)
  PROVE  /\ RemoveAt(s, i) \in Seq(S)
         /\ DOMAIN RemoveAt(s, i) = 1..(Len(s) - 1)
         /\ \A j \in 1..(Len(s) - 1) :
              RemoveAt(s, i)[j] = s[IF j < i THEN j ELSE j + 1]
<1> DEFINE a == SubSeq(s, 1, i - 1)
           b == SubSeq(s, i + 1, Len(s))
<1>1. /\ a \in Seq(S) /\ Len(a) = i - 1
      /\ \A j \in 1..(i - 1) : a[j] = s[j]
  OBVIOUS
<1>2. /\ b \in Seq(S) /\ Len(b) = Len(s) - i
      /\ \A j \in 1..(Len(s) - i) : b[j] = s[i + j]
  OBVIOUS
<1>3. RemoveAt(s, i) = a \o b
  BY DEF RemoveAt
<1> HIDE DEF a, b
<1>4. /\ a \o b \in Seq(S)
      /\ Len(a \o b) = Len(a) + Len(b)
      /\ \A j \in 1..(Len(a) + Len(b)) :
           (a \o b)[j] = IF j <= Len(a) THEN a[j] ELSE b[j - Len(a)]
  <2>1. a \in Seq(S) /\ b \in Seq(S)
    BY <1>1, <1>2
  <2> QED
    BY <2>1, ConcatProperties
<1>5. ASSUME NEW j \in 1..(Len(s) - 1)
      PROVE  (a \o b)[j] = s[IF j < i THEN j ELSE j + 1]
  <2>1. /\ Len(s) \in Nat /\ j \in 1..(Len(a) + Len(b))
        /\ Len(a) = i - 1 /\ Len(b) = Len(s) - i
    BY <1>1, <1>2
  <2>2. CASE j < i
    <3>1. (a \o b)[j] = a[j]
      BY <2>1, <2>2, <1>4
    <3> QED
      BY <3>1, <2>2, <1>1
  <2>3. CASE ~(j < i)
    <3> DEFINE k == j - (i - 1)
    <3>1. (a \o b)[j] = b[k]
      BY <2>1, <2>3, <1>4
    <3>2. k \in 1..(Len(s) - i) /\ i + k = j + 1
      BY <2>1, <2>3
    <3>3. b[k] = s[i + k]
      BY <3>2, <1>2
    <3> QED
      BY <3>1, <3>2, <3>3, <2>3
  <2> QED
    BY <2>2, <2>3
<1>6. Len(a) + Len(b) = Len(s) - 1
  BY <1>1, <1>2
<1>7. DOMAIN (a \o b) = 1..(Len(s) - 1)
  BY <1>4, <1>6
<1> QED
  BY <1>3, <1>4, <1>5, <1>7

-----------------------------------------------------------------------------
(* Type correctness of the variables of Scheduler, for any set of          *)
(* statements with "begin" in it.                                          *)

LEMMA EntryTypes ==
  ASSUME NEW thread \in Threads \cup {AnyThread}
  PROVE  /\ \A f \in Fibers : FiberEntry(f, thread) \in Entry
         /\ \A c \in Tasks : CallbackEntry(c, thread) \in Entry
  BY DEF FiberEntry, CallbackEntry, Entry

LEMMA NoEntryType == NoEntry \in Entry
  BY DEF NoEntry, Entry

(* schedule() of a well typed entry keeps the list well typed.             *)
LEMMA ScheduleType ==
  ASSUME m_fibers \in Seq(Entry), NEW e \in Entry, Schedule(e)
  PROVE  m_fibers' \in Seq(Entry)
  BY DEF Schedule

(* The initial state.                                                      *)
LEMMA InitType ==
  ASSUME NEW Statements, "begin" \in Statements, SchedulerInit
  PROVE  SchedulerTypeOK(Statements)
<1>1. m_fibers \in Seq(Entry)
  BY DEF SchedulerInit
<1>4. m_stop \in BOOLEAN /\ clash \in BOOLEAN
  BY DEF SchedulerInit
<1>2. /\ pc \in [Threads -> Where]
      /\ ft \in [Threads -> Entry]
      /\ need_tick \in [Threads -> BOOLEAN]
      /\ cb_fiber \in [Threads -> Fibers \cup {NoFiber}]
      /\ cur \in [Threads -> Fibers \cup {NoFiber}]
      /\ at \in [Threads -> Statements]
  BY NoEntryType DEF SchedulerInit, Where
<1>3. /\ state \in [Fibers -> FiberState]
      /\ ctx \in [Fibers -> Statements]
      /\ m_cb \in [Fibers -> Tasks \cup {NoTask}]
  BY DEF SchedulerInit, FiberState
<1> QED
  BY <1>1, <1>2, <1>3, <1>4 DEF SchedulerTypeOK

(* Tasks coming in.                                                        *)
LEMMA ScheduleCallbackType ==
  ASSUME NEW Statements, SchedulerTypeOK(Statements),
         NEW thread \in Threads \cup {AnyThread}, NEW c \in Tasks,
         ScheduleCallback(c, thread)
  PROVE  SchedulerTypeOK(Statements)'
  BY EntryTypes, ScheduleType DEF ScheduleCallback, SchedulerTypeOK

LEMMA ScheduleNewFiberType ==
  ASSUME NEW Statements, "begin" \in Statements, SchedulerTypeOK(Statements),
         NEW thread \in Threads \cup {AnyThread}, NEW c \in Tasks,
         NEW f \in Fibers, ScheduleNewFiber(f, c, thread)
  PROVE  SchedulerTypeOK(Statements)'
  BY EntryTypes, ScheduleType
  DEF ScheduleNewFiber, Reset, SchedulerTypeOK, FiberState

(* The steps of mainFun outside a task.                                    *)
LEMMA LoopType ==
  ASSUME NEW Statements, "begin" \in Statements, SchedulerTypeOK(Statements),
         NEW t \in Threads, Loop(t)
  PROVE  SchedulerTypeOK(Statements)'
<1> USE DEF SchedulerTypeOK
<1>0. NoEntry \in Entry
  BY NoEntryType
<1>1. CASE ScanTake(t)
  <2>1. PICK i \in DOMAIN m_fibers :
          /\ ft' = [ft EXCEPT ![t] = m_fibers[i]]
          /\ Erase(i)
          /\ need_tick' = [need_tick EXCEPT ![t] = Len(m_fibers) > 1]
    BY <1>1 DEF ScanTake
  <2>2. m_fibers' \in Seq(Entry)
    BY <2>1, RemoveEntry DEF Erase
  <2>3. m_fibers[i] \in Entry
    BY <2>1
  <2> QED
    BY <1>1, <2>1, <2>2, <2>3 DEF ScanTake, Where
<1>2. CASE ScanNothing(t)
  BY <1>2 DEF ScanNothing, Where
<1>3. CASE Back(t)
  BY <1>0, <1>3 DEF Back, Continue, Where
<1>4. CASE Idle(t)
  BY <1>4 DEF Idle, Where
<1>5. CASE SwapOut(t)
  BY <1>5 DEF SwapOut, Save, Where
<1>6. CASE LeaveStack(t)
  BY <1>6 DEF LeaveStack, Where
<1> QED
  BY <1>1, <1>2, <1>3, <1>4, <1>5, <1>6 DEF Loop

(* Entering a fiber.                                                       *)
LEMMA EnterType ==
  ASSUME NEW Statements, "begin" \in Statements, SchedulerTypeOK(Statements),
         NEW t \in Threads, Enter(t)
  PROVE  SchedulerTypeOK(Statements)'
<1> USE DEF SchedulerTypeOK
<1>0. NoEntry \in Entry
  BY NoEntryType
<1>1. CASE ResumeFiber(t)
  <2> DEFINE f == ft[t].fiber
  <2>1. f \in Fibers
    BY <1>1 DEF ResumeFiber, Entry
  <2>2. CASE Dropped(f)
    BY <1>0, <1>1, <2>2 DEF ResumeFiber, Continue, Where
  <2>3. CASE ~Dropped(f)
    BY <1>1, <2>1, <2>3
    DEF ResumeFiber, SwitchTo, BusyElsewhere, Where, FiberState
  <2> QED
    BY <2>2, <2>3
<1>2. CASE StartCallback(t)
  <2>1. PICK f \in Fibers :
          /\ cb_fiber' = [cb_fiber EXCEPT ![t] = f]
          /\ Reset(f, ft[t].cb)
          /\ SwitchTo(t, f, "begin")
    BY <1>2 DEF StartCallback
  <2>2. ft[t].cb \in Tasks
    BY <1>2 DEF StartCallback, Entry
  <2> QED
    BY <1>2, <2>1, <2>2
    DEF StartCallback, Reset, SwitchTo, BusyElsewhere, Where, FiberState
<1> QED
  BY <1>1, <1>2 DEF Enter

(* The fiber primitives a task calls.                                      *)
LEMMA StepType ==
  ASSUME NEW Statements, SchedulerTypeOK(Statements),
         NEW t \in Threads, NEW s \in Statements,
         Step(t, s), m_fibers' \in Seq(Entry)
  PROVE  SchedulerTypeOK(Statements)'
  BY DEF SchedulerTypeOK, Step

LEMMA YieldToType ==
  ASSUME NEW Statements, SchedulerTypeOK(Statements),
         NEW t \in Threads, NEW st \in FiberState, NEW s \in Statements,
         YieldTo(t, st, s)
  PROVE  SchedulerTypeOK(Statements)'
  BY DEF SchedulerTypeOK, YieldTo, Where

LEMMA EndTaskType ==
  ASSUME NEW Statements, SchedulerTypeOK(Statements),
         NEW t \in Threads, NEW st \in FiberState, EndTask(t, st)
  PROVE  SchedulerTypeOK(Statements)'
  BY DEF SchedulerTypeOK, EndTask, Where
=============================================================================
