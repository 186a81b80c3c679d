----------------------------- MODULE TimerManager -----------------------------
(***************************************************************************)
(* TimerManager (timer.cpp), the rounds of IOManager::idleFun that run its *)
(* timers, and the pipe of IOManager::tick.                                *)
(*                                                                         *)
(* Every worker thread that has nothing else to do sleeps in epoll_wait    *)
(* until the first timer is due or an event comes, then takes the timers   *)
(* that are due off m_timerSet and collects their callbacks.  m_mutex is   *)
(* held for the set only: the members of a Timer are read and written      *)
(* without it, so a cancel() or delTimer() of another thread may come      *)
(* between any two statements of listTimeroutCallback.                     *)
(*                                                                         *)
(* The clock advances by itself, and `delayed` notes when it does so while *)
(* a thread has something to do, which is what lateness is measured        *)
(* against: the steps of the code take less than a millisecond.  With      *)
(* Prompt = TRUE it does not.                                              *)
(***************************************************************************)
EXTENDS Integers

CONSTANTS
  Threads,    (* the worker threads                                        *)
  Timers,     (* the Timer objects users create, each added once           *)
  Ms,         (* Timer::m_ms                                               *)
  Cyclic,     (* the timers created with cycle = true                      *)
  Low,        (* the timers with an address below that of m_timer          *)
  MaxSleep,   (* idleFun's TIMEOUT                                         *)
  IntMax,     (* INT32_MAX                                                 *)
  PipeSize,   (* bytes the pipe takes before write() blocks                *)
  MaxTime,    (* bound: the clock                                          *)
  Prompt,     (* time only passes when no thread can take a step           *)
  Free,       (* m_mutex is not locked                                     *)
  NoTimer     (* no timer in hand                                          *)

ASSUME TimerAssumption ==
  /\ Ms \in [Timers -> Nat]
  /\ Cyclic \subseteq Timers
  /\ Low \subseteq Timers
  /\ MaxSleep \in Nat \ {0}
  /\ IntMax \in Nat
  /\ PipeSize \in Nat
  /\ MaxTime \in Nat
  /\ Prompt \in BOOLEAN
  /\ Free \notin Threads \cup Timers
  /\ Threads \cap Timers = {}
  /\ NoTimer \notin Timers

VARIABLES
  now,          (* the clock, in milliseconds                              *)
  m_timerSet,   (* TimerManager::m_timerSet                                *)
  lock,         (* who holds TimerManager::m_mutex for writing: a thread,  *)
                (* or the user of a timer                                  *)
  pipe,         (* bytes written by tick() and not read                    *)
  m_timer,      (* the m_expire_ms of TimerManager::m_timer                *)
  m_expire_ms,  (* Timer::m_expire_ms                                      *)
  m_cancel,     (* Timer::m_cancel                                         *)
  m_cb,         (* Timer::m_cb: "set" or "null"                            *)
  m_cycle,      (* Timer::m_cycle                                          *)
  user,         (* how far the user of each timer has come with adding it  *)
  pc,           (* where each thread is in its round, see Where            *)
  deadline,     (* when the epoll_wait of each sleeping thread times out   *)
  stamp,        (* the clock each thread read last                         *)
  vec,          (* listTimeroutCallback's vec, what is left of it          *)
  it,           (* listTimeroutCallback's it                               *)
  fired,        (* history: how often each callback was collected          *)
  last,         (* history: when it was collected last                     *)
  deleted,      (* history: timers whose delTimer() has returned           *)
  nullListed,   (* history: a null callback was collected                  *)
  delayed       (* history: time passed while somebody had a step to take, *)
                (* or was blocked by a full pipe                           *)

threadVars == <<pc, deadline, stamp, vec, it, m_timer>>
timerVars == <<m_expire_ms, m_cancel, m_cb, m_cycle>>
setVars == <<m_timerSet, lock, pipe>>
historyVars == <<fired, last, deleted, nullListed, delayed>>
vars == <<now, setVars, timerVars, user, threadVars, historyVars>>

(***************************************************************************)
(* poll    about to compute the timeout                                    *)
(* asleep  in epoll_wait                                                   *)
(* clock   listTimeroutCallback, about to read the clock                   *)
(* probe   about to write m_timer                                          *)
(* empty   about to look whether m_timerSet is empty                       *)
(* take    about to take what is due                                       *)
(* each    at the head of the loop over vec                                *)
(* copy    past the test of m_cancel                                       *)
(* cycle   has collected the callback                                      *)
(* add     about to call addTimer                                          *)
(* tick    in addTimer with the lock held, about to write to the pipe      *)
(***************************************************************************)
Where == {"poll", "asleep", "clock", "probe", "empty", "take", "each", "copy",
          "cycle", "add", "tick"}

TypeOK ==
  /\ now \in Nat
  /\ m_timerSet \subseteq Timers
  /\ lock \in Threads \cup Timers \cup {Free}
  /\ pipe \in Nat
  /\ m_timer \in Nat
  /\ m_expire_ms \in [Timers -> Nat]
  /\ m_cancel \in [Timers -> BOOLEAN]
  /\ m_cb \in [Timers -> {"set", "null"}]
  /\ m_cycle \in [Timers -> BOOLEAN]
  /\ user \in [Timers -> {"new", "made", "tick", "added"}]
  /\ pc \in [Threads -> Where]
  /\ deadline \in [Threads -> Nat]
  /\ stamp \in [Threads -> Nat]
  /\ vec \in [Threads -> SUBSET Timers]
  /\ it \in [Threads -> Timers \cup {NoTimer}]
  /\ fired \in [Timers -> Nat]
  /\ last \in [Timers -> Nat]
  /\ deleted \subseteq Timers
  /\ nullListed \in BOOLEAN
  /\ delayed \in BOOLEAN

Init ==
  /\ now = 0
  /\ m_timerSet = {}
  /\ lock = Free
  /\ pipe = 0
  /\ m_timer = 0
  /\ m_expire_ms = [x \in Timers |-> 0]
  /\ m_cancel = [x \in Timers |-> FALSE]
  /\ m_cb = [x \in Timers |-> "set"]
  /\ m_cycle \in [Timers -> BOOLEAN]
  /\ \A x \in Timers : m_cycle[x] <=> x \in Cyclic
  /\ user = [x \in Timers |-> "new"]
  /\ pc = [t \in Threads |-> "poll"]
  /\ deadline = [t \in Threads |-> 0]
  /\ stamp = [t \in Threads |-> 0]
  /\ vec = [t \in Threads |-> {}]
  /\ it = [t \in Threads |-> NoTimer]
  /\ fired = [x \in Timers |-> 0]
  /\ last = [x \in Timers |-> 0]
  /\ deleted = {}
  /\ nullListed = FALSE
  /\ delayed = FALSE

-----------------------------------------------------------------------------
(* The users of timers, on any thread.                                     *)

(* The constructor; the time starts to run here, not in addTimer.          *)
Construct(x) ==
  /\ user[x] = "new"
  /\ user' = [user EXCEPT ![x] = "made"]
  /\ m_expire_ms' = [m_expire_ms EXCEPT ![x] = now + Ms[x]]
  /\ UNCHANGED <<now, setVars, m_cancel, m_cb, m_cycle, threadVars,
                 historyVars>>

(* Mutant of Insert: addTimer does not look at m_cancel.                   *)
InsertCancelled(x, who) ==
  /\ lock = Free
  /\ lock' = IF m_timerSet = {} THEN who ELSE Free
  /\ m_timerSet' = m_timerSet \cup {x}

(* addTimer up to the callback for an empty set, which runs under the lock.*)
Insert(x, who) ==
  /\ lock = Free
  /\ lock' = IF ~m_cancel[x] /\ m_timerSet = {} THEN who ELSE Free
  /\ m_timerSet' = IF m_cancel[x] THEN m_timerSet ELSE m_timerSet \cup {x}

(* insertTimerAtFrontCallback writes a byte and the lock is released.  It  *)
(* blocks while the pipe is full.                                          *)
tick ==
  /\ pipe < PipeSize
  /\ pipe' = pipe + 1
  /\ lock' = Free
  /\ UNCHANGED m_timerSet

(* idleFun reads the pipe when epoll reports it, and what the constructor  *)
(* of IOManager registers with epoll for EPOLLIN is m_tickFds[1], the end  *)
(* tick writes to: that end never becomes readable.                        *)
WatchedEnd == "write"
TickReported == WatchedEnd = "read" /\ pipe > 0

AddTimer(x) ==
  /\ user[x] = "made"
  /\ Insert(x, x)
  /\ user' = [user EXCEPT ![x] = IF lock' = x THEN "tick" ELSE "added"]
  /\ UNCHANGED <<now, pipe, timerVars, threadVars, historyVars>>

AddTimerTick(x) ==
  /\ user[x] = "tick"
  /\ tick
  /\ user' = [user EXCEPT ![x] = "added"]
  /\ UNCHANGED <<now, timerVars, threadVars, historyVars>>

(* The three assignments of cancel(), which takes no lock.                 *)
CancelFlag(x) ==
  /\ user[x] # "new"
  /\ ~m_cancel[x]
  /\ m_cancel' = [m_cancel EXCEPT ![x] = TRUE]
  /\ UNCHANGED <<now, setVars, m_expire_ms, m_cb, m_cycle, user, threadVars,
                 historyVars>>

CancelCb(x) ==
  /\ m_cancel[x] /\ m_cb[x] # "null"
  /\ m_cb' = [m_cb EXCEPT ![x] = "null"]
  /\ UNCHANGED <<now, setVars, m_expire_ms, m_cancel, m_cycle, user,
                 threadVars, historyVars>>

CancelCycle(x) ==
  /\ m_cancel[x] /\ m_cb[x] = "null" /\ m_cycle[x]
  /\ m_cycle' = [m_cycle EXCEPT ![x] = FALSE]
  /\ UNCHANGED <<now, setVars, m_expire_ms, m_cancel, m_cb, user, threadVars,
                 historyVars>>

(* delTimer(): the first assignment of its cancel(); the others are        *)
(* CancelCb and CancelCycle.                                               *)
DelTimer(x) ==
  /\ user[x] # "new" /\ x \notin deleted
  /\ lock = Free
  /\ lock' = x
  /\ m_cancel' = [m_cancel EXCEPT ![x] = TRUE]
  /\ UNCHANGED <<now, m_timerSet, pipe, m_expire_ms, m_cb, m_cycle, user,
                 threadVars, historyVars>>

DelTimerErase(x) ==
  /\ lock = x /\ user[x] # "tick"
  /\ m_cb[x] = "null" /\ ~m_cycle[x]
  /\ m_timerSet' = m_timerSet \ {x}
  /\ lock' = Free
  /\ deleted' = deleted \cup {x}
  /\ UNCHANGED <<now, pipe, timerVars, user, threadVars, fired, last,
                 nullListed, delayed>>

UserStep(x) ==
  \/ Construct(x)
  \/ AddTimer(x)
  \/ AddTimerTick(x)
  \/ CancelFlag(x)
  \/ CancelCb(x)
  \/ CancelCycle(x)
  \/ DelTimer(x)
  \/ DelTimerErase(x)

-----------------------------------------------------------------------------
(* A round of idleFun, thread t.                                           *)

Go(t, where) == pc' = [pc EXCEPT ![t] = where]

(* What a uint64_t is when it is assigned to an int.                       *)
ToInt(n) ==
  LET low == n % (2 * (IntMax + 1))
  IN IF low <= IntMax THEN low ELSE low - 2 * (IntMax + 1)

(* ret, from the timer at the front of the set.                            *)
Remaining ==
  IF m_timerSet = {} THEN {IntMax}
  ELSE {ToInt(m_expire_ms[x] - now) :
          x \in {y \in m_timerSet :
                  \A z \in m_timerSet : m_expire_ms[y] <= m_expire_ms[z]}}

(* Mutant of getRecentTimerout: it does not look at the sign.              *)
RemainingSigned(ret) == ret

getRecentTimerout(ret) == IF ret < 0 THEN 0 ELSE ret

(* Mutant of Timeout: nothing caps the timeout of epoll_wait.              *)
TimeoutUncapped(ms) == ms

Timeout(ms) == IF ms < MaxSleep THEN ms ELSE MaxSleep

Poll(t) ==
  /\ pc[t] = "poll"
  /\ lock = Free
  /\ \E ret \in Remaining :
       deadline' =
         [deadline EXCEPT ![t] = now + Timeout(getRecentTimerout(ret))]
  /\ Go(t, "asleep")
  /\ UNCHANGED <<now, setVars, timerVars, user, stamp, vec, it, m_timer,
                 historyVars>>

(* epoll_wait returns at the deadline, and before it for any other event.  *)
WakeUp(t) ==
  /\ pc[t] = "asleep"
  /\ deadline' = [deadline EXCEPT ![t] = 0]
  /\ Go(t, "clock")
  /\ UNCHANGED <<now, setVars, timerVars, user, stamp, vec, it, m_timer,
                 historyVars>>

ReadClock(t) ==
  /\ pc[t] = "clock"
  /\ stamp' = [stamp EXCEPT ![t] = now]
  /\ Go(t, "probe")
  /\ UNCHANGED <<now, setVars, timerVars, user, deadline, vec, it, m_timer,
                 historyVars>>

(* m_timer belongs to all threads and is written without the lock.         *)
SetProbe(t) ==
  /\ pc[t] = "probe"
  /\ m_timer' = stamp[t]
  /\ Go(t, "empty")
  /\ UNCHANGED <<now, setVars, timerVars, user, deadline, stamp, vec, it,
                 historyVars>>

(* An empty set ends the call; callbacks is still empty.                   *)
TestEmpty(t) ==
  /\ pc[t] = "empty"
  /\ lock = Free
  /\ Go(t, IF m_timerSet = {} THEN "poll" ELSE "take")
  /\ UNCHANGED <<now, setVars, timerVars, user, deadline, stamp, vec, it,
                 m_timer, historyVars>>

(* Mutant of Due: one too many.                                            *)
DueNext(x) == m_expire_ms[x] <= m_timer + 1

(* Before lower_bound(m_timer): TimerCmp compares the times and then the   *)
(* addresses.                                                              *)
Due(x) ==
  \/ m_expire_ms[x] < m_timer
  \/ m_expire_ms[x] = m_timer /\ x \in Low

(* Mutant of Erased: a cyclic timer stays in the set.                      *)
ErasedOneShots(S) == S \ Cyclic

Erased(S) == S

Take(t) ==
  LET due == {x \in m_timerSet : Due(x)} IN
  /\ pc[t] = "take"
  /\ lock = Free
  /\ vec' = [vec EXCEPT ![t] = due]
  /\ m_timerSet' = m_timerSet \ Erased(due)
  /\ Go(t, "each")
  /\ UNCHANGED <<now, lock, pipe, timerVars, user, deadline, stamp, it,
                 m_timer, historyVars>>

(* The loop over vec, in the order of the set.  At its end the callbacks   *)
(* are scheduled and the thread goes on to its next round.                 *)
Each(t) ==
  /\ pc[t] = "each"
  /\ \/ /\ vec[t] = {}
        /\ it' = [it EXCEPT ![t] = NoTimer]
        /\ Go(t, "poll")
        /\ UNCHANGED vec
     \/ \E x \in vec[t] :
          /\ \A y \in vec[t] : m_expire_ms[x] <= m_expire_ms[y]
          /\ vec' = [vec EXCEPT ![t] = @ \ {x}]
          /\ it' = [it EXCEPT ![t] = x]
          /\ Go(t, IF m_cancel[x] THEN "each" ELSE "copy")
  /\ UNCHANGED <<now, setVars, timerVars, user, deadline, stamp, m_timer,
                 historyVars>>

(* callbacks.push_back(it->m_cb).  The copy may meet the assignment of     *)
(* cancel(): it takes the callback or null.                                *)
Copy(t) ==
  /\ pc[t] = "copy"
  /\ IF m_cb[it[t]] = "set"
     THEN /\ fired' = [fired EXCEPT ![it[t]] = @ + 1]
          /\ last' = [last EXCEPT ![it[t]] = now]
          /\ UNCHANGED nullListed
     ELSE /\ nullListed' = TRUE
          /\ UNCHANGED <<fired, last>>
  /\ Go(t, "cycle")
  /\ UNCHANGED <<now, setVars, timerVars, user, deadline, stamp, vec, it,
                 m_timer, deleted, delayed>>

refresh(x) == m_expire_ms' = [m_expire_ms EXCEPT ![x] = Ms[x] + now]

Repeats(x) == m_cycle[x]

(* m_cycle is read here and in refresh(); between the two only cancel()    *)
(* can reset it, and addTimer rejects the timer then, refreshed or not.    *)
TestCycle(t) ==
  /\ pc[t] = "cycle"
  /\ IF Repeats(it[t])
     THEN refresh(it[t]) /\ Go(t, "add")
     ELSE UNCHANGED m_expire_ms /\ Go(t, "each")
  /\ UNCHANGED <<now, setVars, m_cancel, m_cb, m_cycle, user, deadline, stamp,
                 vec, it, m_timer, historyVars>>

AddAgain(t) ==
  /\ pc[t] = "add"
  /\ Insert(it[t], t)
  /\ Go(t, IF lock' = t THEN "tick" ELSE "each")
  /\ UNCHANGED <<now, pipe, timerVars, user, deadline, stamp, vec, it,
                 m_timer, historyVars>>

AddAgainTick(t) ==
  /\ pc[t] = "tick"
  /\ tick
  /\ Go(t, "each")
  /\ UNCHANGED <<now, timerVars, user, deadline, stamp, vec, it, m_timer,
                 historyVars>>

ThreadStep(t) ==
  \/ Poll(t)
  \/ WakeUp(t)
  \/ ReadClock(t)
  \/ SetProbe(t)
  \/ TestEmpty(t)
  \/ Take(t)
  \/ Each(t)
  \/ Copy(t)
  \/ TestCycle(t)
  \/ AddAgain(t)
  \/ AddAgainTick(t)

-----------------------------------------------------------------------------
(* Time.                                                                   *)

(* A thread that has a step to take at once: not one that sleeps on, that  *)
(* has already looked at the timers in this millisecond, or that waits for *)
(* the lock or for room in the pipe.                                       *)
Busy(t) ==
  \/ /\ pc[t] = "asleep"
     /\ deadline[t] <= now \/ TickReported
     /\ stamp[t] < now
  \/ pc[t] \in {"clock", "probe", "each", "copy", "cycle"}
  \/ pc[t] \in {"poll", "empty", "take", "add"} /\ lock = Free
  \/ pc[t] = "tick" /\ pipe < PipeSize

(* A user in addTimer or delTimer that does not wait for the lock or for   *)
(* room in the pipe.                                                       *)
UserBusy(x) ==
  \/ user[x] = "made" /\ lock = Free
  \/ lock = x /\ (user[x] = "tick" => pipe < PipeSize)

SomebodyBusy ==
  \/ \E t \in Threads : Busy(t)
  \/ \E x \in Timers : UserBusy(x)

(* Somebody stands before the write to the pipe, which may be full.        *)
BeforeTick ==
  \/ \E t \in Threads : pc[t] = "tick"
  \/ \E x \in Timers : user[x] = "tick"

Advance ==
  /\ now < MaxTime
  /\ Prompt => ~SomebodyBusy
  /\ now' = now + 1
  /\ delayed' = (delayed \/ SomebodyBusy \/ BeforeTick)
  /\ UNCHANGED <<setVars, timerVars, user, threadVars, fired, last, deleted,
                 nullListed>>

Next ==
  \/ \E x \in Timers : UserStep(x)
  \/ \E t \in Threads : ThreadStep(t)
  \/ Advance

Spec == Init /\ [][Next]_vars

-----------------------------------------------------------------------------
(* Thread t has taken x off the set and has not put it back or dropped it. *)
Held(x, t) ==
  x \in vec[t] \/ (pc[t] \in {"copy", "cycle", "add"} /\ it[t] = x)

(* A timer is in the set or in the hands of one thread, never in both or   *)
(* of two: nobody fires it twice, or changes the key of a member.          *)
OneKeeper ==
  \A x \in Timers :
    /\ \A t \in Threads : Held(x, t) => x \notin m_timerSet
    /\ \A t, u \in Threads : Held(x, t) /\ Held(x, u) => t = u

(* std::set needs it: the time of a timer in the set does not change.      *)
KeysStable ==
  [][\A x \in m_timerSet :
       x \in m_timerSet' => m_expire_ms'[x] = m_expire_ms[x]]_vars

(* No timer is taken before it is due, although threads overwrite each     *)
(* other's m_timer.                                                        *)
NeverEarly ==
  \A t \in Threads : \A x \in vec[t] : m_expire_ms[x] <= now

(* A timer that does not repeat fires once.                                *)
OneShotFiresOnce == \A x \in Timers \ Cyclic : fired[x] <= 1

(* A cyclic timer never fires twice within its period.                     *)
PeriodKept ==
  [][\A x \in Timers :
       (fired[x] > 0 /\ fired'[x] > fired[x]) => now - last[x] >= Ms[x]]_vars

(* A timer is not in the set once delTimer() has returned, and does not    *)
(* come back, although a thread may have it in hand to add it again.       *)
DeletedStaysOut == deleted \cap m_timerSet = {}

(* No timer is late by more than the longest sleep.                        *)
NeverOverdue ==
  \A x \in m_timerSet : ~m_cancel[x] => now <= m_expire_ms[x] + MaxSleep

(* A timer in the set is late by no more than the longest sleep of idleFun *)
(* as long as nobody was delayed or kept waiting by a full pipe, although  *)
(* the time left is narrowed to an int (timer.cpp:105-164,                 *)
(* iomanager.cpp:289-361).                                                 *)
NotLate == ~delayed => NeverOverdue

(* A timer fires in the millisecond it is due or in the next one: timer.cpp*)
(* has every thread return from epoll_wait in time.                        *)
OnTime ==
  \A x \in m_timerSet : ~m_cancel[x] => now <= m_expire_ms[x] + 1

(* No null callback is scheduled: mainFun asserts that an entry has a      *)
(* fiber or a callback.                                                    *)
CallbacksNotNull == ~nullListed
=============================================================================
