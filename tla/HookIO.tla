-------------------------------- MODULE HookIO --------------------------------
(***************************************************************************)
(* The hooked system calls (hook.cpp) and FdManager on top of IOEvents.    *)
(*                                                                         *)
(* A fiber calls read, write or connect on a socket as if it blocked.      *)
(* do_io tries; on EAGAIN it arms a timer if the socket has a timeout,     *)
(* registers with addEvent, yields, and when it is resumed cancels the     *)
(* timer and tries again, unless timer_info::cancelled says that the timer *)
(* came first.  connect_with_timeout does the same once and asks SO_ERROR. *)
(* A callback may be registered without a hooked call.  close() cancels    *)
(* what is registered, drops the FdCtx and closes.  sleep and usleep yield *)
(* to a timer that schedules the fiber.                                    *)
(*                                                                         *)
(* FdManager puts every socket into nonblocking mode and remembers what    *)
(* the program asked for by fcntl and ioctl.  A call on a descriptor that  *)
(* blocks in the kernel stays at `try`, and its worker with it.            *)
(*                                                                         *)
(* A worker executes one thing at a time: a fiber up to its yield, a       *)
(* callback, or a round of idleFun.  Time is abstract: an armed timer may  *)
(* expire at any moment; TimerManager says when.                           *)
(***************************************************************************)
EXTENDS IOEvents

CONSTANTS Plan,      \* what each waiter does; calls is a bound: how often
          Casts,     \* sets of waiters that may exist together
          Crews      \* sets of workers that may exist together

ASSUME HookAssumption ==
    /\ Plan \in [Waiters -> [fd : Fds, dir : Dirs, timed : BOOLEAN,
                             kind : {"io", "connect", "callback", "sleep", "flags"},
                             calls : Nat]]
    /\ \A t \in Waiters : Plan[t].kind = "callback" => ~Plan[t].timed
    /\ Casts \subseteq SUBSET Waiters
    /\ Crews \subseteq SUBSET Workers

VARIABLES
    cast, crew,  \* chosen at the start
    pc,          \* statement each waiter has reached
    calls,       \* calls each waiter has begun
    on,          \* what each worker executes
    armed,       \* waiters with a timer in the TimerManager
    due,         \* waiters with the callback of a timer in m_fibers
    cancelled,   \* timer_info::cancelled of the current call
    early,       \* history: waiters whose timer fired before addEvent
    tracked,     \* descriptors with an FdCtx in FdManager
    raced,       \* history: descriptors closed under a call that registers
    pulled,      \* history: waiters whose descriptor was closed under their call
    untrue,      \* history: connects that reported success unconnected
    userNonBlock,  \* descriptors whose FdCtx has m_userNonBlock
    blocking,    \* descriptors without O_NONBLOCK in the kernel
    cleared      \* history: descriptors whose O_NONBLOCK the program took away

flagVars == <<userNonBlock, blocking, cleared>>
hookVars == <<pc, calls, on, armed, due, cancelled, early, tracked, raced, pulled, untrue,
              flagVars>>
vars == <<ioVars, hookVars, cast, crew>>

(***************************************************************************)
(* idle      between calls                                                 *)
(* try       about to make the system call                                 *)
(* pass      the same, for a descriptor the program has made nonblocking   *)
(* arm       EAGAIN, about to addTimer                                     *)
(* add       about to addEvent; resize, lookup: inside it                  *)
(* yield     registered, about to yield                                    *)
(* wait      suspended (a callback: registered)                            *)
(* woken     resumed, about to cancel the timer                            *)
(* check     connect: about to ask SO_ERROR                                *)
(***************************************************************************)
Statements == {"idle", "try", "pass", "arm", "add", "resize", "lookup", "yield", "wait",
               "woken", "check"}

Activity == [does : {"task", "timeout", "idle", "nothing"}, who : Waiters \cup {Nobody}]
            \cup [does : {"close", "forget"}, fd : Fds]

Nothing == [does |-> "nothing", who |-> Nobody]
Executing(t) == [does |-> "task", who |-> t]
TimingOut(t) == [does |-> "timeout", who |-> t]
Handling == [does |-> "idle", who |-> Nobody]
Closing(fd) == [does |-> "close", fd |-> fd]
Forgetting(fd) == [does |-> "forget", fd |-> fd]

TypeOK ==
    /\ IOTypeOK
    /\ cast \subseteq Waiters
    /\ crew \subseteq Workers
    /\ pc \in [Waiters -> Statements]
    /\ calls \in [Waiters -> Nat]
    /\ on \in [Workers -> Activity]
    /\ armed \subseteq Waiters
    /\ due \subseteq Waiters
    /\ cancelled \subseteq Waiters
    /\ early \subseteq Waiters
    /\ tracked \subseteq Fds
    /\ raced \subseteq Fds
    /\ pulled \subseteq Waiters
    /\ untrue \subseteq Waiters
    /\ userNonBlock \subseteq Fds
    /\ blocking \subseteq Fds
    /\ cleared \subseteq Fds

Init ==
    /\ IOInit
    /\ cast \in Casts
    /\ crew \in Crews
    /\ pc = [t \in Waiters |-> "idle"]
    /\ calls = [t \in Waiters |-> 0]
    /\ on = [w \in Workers |-> Nothing]
    /\ armed = {} /\ due = {} /\ cancelled = {} /\ early = {}
    /\ tracked = Fds
    /\ raced = {} /\ pulled = {}
    /\ untrue = {}
    /\ userNonBlock = {} /\ blocking = {} /\ cleared = {}

Fd(t) == Plan[t].fd
Dir(t) == Plan[t].dir

Idle(w) == on[w] = Nothing
At(w, t, s) == on[w] = Executing(t) /\ pc[t] = s

Goto(t, s) == pc' = [pc EXCEPT ![t] = s]
Does(w, a) == on' = [on EXCEPT ![w] = a]

IsReady(t) == level[Fd(t)] \cap {Dir(t), "HUP"} # {}

\* The call returns: its timer_info is gone, and what still refers to it does nothing.
Return(w, t) ==
    /\ Goto(t, "idle")
    /\ Does(w, Nothing)
    /\ due' = due \ {t}
    /\ cancelled' = cancelled \ {t}
    /\ early' = early \ {t}
    /\ armed' = armed \ {t}
    /\ pulled' = pulled \ {t}

(***************************************************************************)
(* A call begins on a free worker: of a socket with an FdCtx (any other    *)
(* goes to the system as it is).                                           *)
(***************************************************************************)
Start(w, t) ==
    /\ Idle(w)
    /\ pc[t] = "idle"
    /\ calls[t] < Plan[t].calls
    /\ Fd(t) \in tracked /\ Plan[t].kind # "flags"
    /\ Goto(t, CASE Plan[t].kind = "callback" -> "add"
                 [] Plan[t].kind = "sleep" -> "arm"
                 [] Plan[t].kind = "io" /\ Fd(t) \in userNonBlock -> "pass"
                 [] OTHER -> "try")
    /\ Does(w, Executing(t))
    /\ calls' = [calls EXCEPT ![t] = @ + 1]
    /\ UNCHANGED <<ioVars, armed, due, cancelled, early, tracked, raced, pulled, untrue, flagVars>>

\* The call succeeds, uses the data or the room up or leaves some, or fails
\* because the descriptor is closed.
TrySucceeds(w, t) ==
    /\ At(w, t, "try") \/ At(w, t, "pass")
    /\ IF Fd(t) \notin opened THEN UNCHANGED level
       ELSE /\ IsReady(t)
            /\ \E used \in SUBSET ({Dir(t)} \ (IF Plan[t].kind = "connect" THEN Dirs ELSE {})) :
                  level' = [level EXCEPT ![Fd(t)] = @ \ used]
    /\ Return(w, t)
    /\ UNCHANGED <<size, events, waiter, queued, fetched, item, listed, opened, fault,
                   calls, tracked, raced, untrue, flagVars>>

\* EAGAIN, or EINPROGRESS of connect.
TryBlocks(w, t) ==
    /\ At(w, t, "try")
    /\ Fd(t) \in opened
    /\ ~IsReady(t) /\ Fd(t) \notin blocking
    /\ Goto(t, IF Plan[t].timed THEN "arm" ELSE "add")
    /\ UNCHANGED <<ioVars, calls, on, armed, due, cancelled, early, tracked, raced, pulled, untrue, flagVars>>

\* m_userNonBlock was set when the call began: the caller gets the EAGAIN.
PassBlocks(w, t) ==
    /\ At(w, t, "pass")
    /\ Fd(t) \in opened
    /\ ~IsReady(t) /\ Fd(t) \notin blocking
    /\ Return(w, t)
    /\ UNCHANGED <<ioVars, calls, tracked, raced, untrue, flagVars>>

\* iom->addTimer(to, ...)
ArmTimer(w, t) ==
    /\ At(w, t, "arm")
    /\ armed' = armed \cup {t}
    /\ Goto(t, IF Plan[t].kind = "sleep" THEN "yield" ELSE "add")
    /\ UNCHANGED <<ioVars, calls, on, due, cancelled, early, tracked, raced, pulled, untrue, flagVars>>

TestSize(w, t) ==
    /\ At(w, t, "add")
    /\ Goto(t, IF TooSmall(Fd(t)) THEN "resize" ELSE "lookup")
    /\ UNCHANGED <<ioVars, calls, on, armed, due, cancelled, early, tracked, raced, pulled, untrue, flagVars>>

ResizeContexts(w, t) ==
    /\ At(w, t, "resize")
    /\ Resize(Fd(t))
    /\ Goto(t, "lookup")
    /\ UNCHANGED <<calls, on, armed, due, cancelled, early, tracked, raced, pulled, untrue, flagVars>>

Register(w, t) ==
    /\ At(w, t, "lookup")
    /\ AddEvent(t, Fd(t), Dir(t))
    /\ IF Plan[t].kind = "callback"
       THEN Goto(t, "wait") /\ Does(w, Nothing)
       ELSE Goto(t, "yield") /\ UNCHANGED on
    /\ early' = IF t \in cancelled THEN early \cup {t} ELSE early
    /\ UNCHANGED <<calls, armed, due, cancelled, tracked, raced, pulled, untrue, flagVars>>

YieldToHold(w, t) ==
    /\ At(w, t, "yield")
    /\ Goto(t, "wait")
    /\ Does(w, Nothing)
    /\ UNCHANGED <<ioVars, calls, armed, due, cancelled, early, tracked, raced, pulled, untrue, flagVars>>

\* A worker takes the entry: the fiber goes on, the callback runs to its end.
Resume(w, t) ==
    /\ Idle(w)
    /\ pc[t] = "wait"
    /\ queued[t] > 0
    /\ queued' = [queued EXCEPT ![t] = @ - 1]
    /\ IF Plan[t].kind \in {"callback", "sleep"}
       THEN Goto(t, "idle") /\ UNCHANGED on
       ELSE Goto(t, "woken") /\ Does(w, Executing(t))
    /\ UNCHANGED <<size, events, waiter, fetched, item, listed, level, opened, fault,
                   calls, armed, due, cancelled, early, tracked, raced, pulled, untrue, flagVars>>

\* timer->cancel(), and ETIMEDOUT if the timer was first.
TimedOut(w, t) ==
    /\ At(w, t, "woken")
    /\ t \in cancelled
    /\ Return(w, t)
    /\ UNCHANGED <<ioVars, calls, tracked, raced, untrue, flagVars>>

\* mutant: cancelled is not looked at
TryAgainAnyway(w, t) ==
    /\ At(w, t, "woken")
    /\ armed' = armed \ {t}
    /\ Goto(t, IF Plan[t].kind = "connect" THEN "check" ELSE "try")
    /\ UNCHANGED <<ioVars, calls, on, due, cancelled, early, tracked, raced, pulled, untrue, flagVars>>

TryAgain(w, t) ==
    /\ At(w, t, "woken")
    /\ t \notin cancelled
    /\ armed' = armed \ {t}
    /\ Goto(t, IF Plan[t].kind = "connect" THEN "check" ELSE "try")
    /\ UNCHANGED <<ioVars, calls, on, due, cancelled, early, tracked, raced, pulled, untrue, flagVars>>

\* SO_ERROR is 0 also while the connection is being made.
CheckConnected(w, t) ==
    /\ At(w, t, "check")
    /\ untrue' = IF Fd(t) \in opened /\ ~IsReady(t) /\ t \notin pulled THEN untrue \cup {t} ELSE untrue
    /\ Return(w, t)
    /\ UNCHANGED <<ioVars, calls, tracked, raced, flagVars>>

\* The owner of a callback takes the registration back.
Withdraw(w, t) ==
    /\ Idle(w)
    /\ Plan[t].kind = "callback"
    /\ pc[t] = "wait"
    /\ Dir(t) \in events[Fd(t)]
    /\ DelEvent(Fd(t), Dir(t))
    /\ Goto(t, "idle")
    /\ UNCHANGED <<calls, on, armed, due, cancelled, early, tracked, raced, pulled, untrue, flagVars>>

(***************************************************************************)
(* The timer: idleFun schedules its callback, a worker runs it.  Between   *)
(* the assignment of cancelled and cancelEvent others may come.            *)
(***************************************************************************)
Expire(w, t) ==
    /\ Idle(w)
    /\ t \in armed
    /\ armed' = armed \ {t}
    /\ due' = due \cup {t}
    /\ UNCHANGED <<ioVars, pc, calls, on, cancelled, early, tracked, raced, pulled, untrue, flagVars>>

RunTimeout(w, t) ==
    /\ Idle(w)
    /\ t \in due /\ Plan[t].kind # "sleep"
    /\ due' = due \ {t}
    /\ cancelled' = cancelled \cup {t}
    /\ IF t \in cancelled THEN UNCHANGED on ELSE Does(w, TimingOut(t))
    /\ UNCHANGED <<ioVars, pc, calls, armed, early, tracked, raced, pulled, untrue, flagVars>>

\* iom->schedule(fiber)
EndSleep(w, t) ==
    /\ Idle(w)
    /\ t \in due /\ Plan[t].kind = "sleep"
    /\ due' = due \ {t}
    /\ queued' = [queued EXCEPT ![t] = @ + 1]
    /\ UNCHANGED <<size, events, waiter, fetched, item, listed, level, opened, fault, pc, calls,
                   on, armed, cancelled, early, tracked, raced, pulled, untrue, flagVars>>

\* mutant: the callback of the timer only sets cancelled
CancelWaitForgets(w, t) ==
    /\ on[w] = TimingOut(t)
    /\ Does(w, Nothing)
    /\ UNCHANGED <<ioVars, pc, calls, armed, due, cancelled, early, tracked, raced, pulled, untrue, flagVars>>

CancelWait(w, t) ==
    /\ on[w] = TimingOut(t)
    /\ CancelEvent(Fd(t), Dir(t))
    /\ Does(w, Nothing)
    /\ UNCHANGED <<pc, calls, armed, due, cancelled, early, tracked, raced, pulled, untrue, flagVars>>

(***************************************************************************)
(* A round of idleFun.                                                     *)
(***************************************************************************)
EpollWait(w) ==
    /\ Idle(w)
    /\ Fetch(w)
    /\ Does(w, Handling)
    /\ UNCHANGED <<pc, calls, armed, due, cancelled, early, tracked, raced, pulled, untrue, flagVars>>

HandleEvent(w, e) ==
    /\ on[w] = Handling
    /\ Handle(w, e)
    /\ Does(w, IF fetched[w] = {e} THEN Nothing ELSE Handling)
    /\ UNCHANGED <<pc, calls, armed, due, cancelled, early, tracked, raced, pulled, untrue, flagVars>>

(***************************************************************************)
(* close(fd) by any fiber: cancelAllEvent, FdManager::del, close_f; and    *)
(* socket() or accept(), which get the number again.                       *)
(***************************************************************************)
InUse(fd) ==
    \E t \in Waiters : Fd(t) = fd /\ pc[t] \in {"arm", "add", "resize", "lookup"}

Close(w, fd) ==
    /\ Idle(w)
    /\ fd \in opened \cap tracked
    /\ \A v \in Workers : on[v] # Closing(fd) /\ on[v] # Forgetting(fd)
    /\ CancelAllEvent(fd)
    /\ Does(w, Closing(fd))
    /\ UNCHANGED <<pc, calls, armed, due, cancelled, early, tracked, raced, pulled, untrue, flagVars>>

ForgetCtx(w, fd) ==
    /\ on[w] = Closing(fd)
    /\ tracked' = tracked \ {fd}
    /\ userNonBlock' = userNonBlock \ {fd}
    /\ Does(w, Forgetting(fd))
    /\ UNCHANGED <<ioVars, pc, calls, armed, due, cancelled, early, raced, pulled, untrue,
                   blocking, cleared>>

CloseFile(w, fd) ==
    /\ on[w] = Forgetting(fd)
    /\ KernelClose(fd)
    /\ raced' = IF item[fd] # {} \/ InUse(fd) THEN raced \cup {fd} ELSE raced
    /\ pulled' = pulled \cup {t \in Waiters : Fd(t) = fd /\ pc[t] # "idle"}
    /\ cleared' = cleared \ {fd}
    /\ blocking' = blocking \ {fd}
    /\ Does(w, Nothing)
    /\ UNCHANGED <<pc, calls, armed, due, cancelled, early, tracked, untrue, userNonBlock>>

\* A new FdCtx makes the new socket nonblocking, one that was there does nothing.
Open(w, fd) ==
    /\ Idle(w)
    /\ KernelOpen(fd)
    /\ tracked' = tracked \cup {fd}
    /\ blocking' = IF fd \in tracked THEN blocking \cup {fd} ELSE blocking
    /\ UNCHANGED <<pc, calls, on, armed, due, cancelled, early, raced, pulled, untrue,
                   userNonBlock, cleared>>

(***************************************************************************)
(* fcntl(F_SETFL) with or without O_NONBLOCK, and ioctl(FIONBIO), which    *)
(* hands to the kernel what it was given.  Without an FdCtx both do.       *)
(***************************************************************************)
Asked(fd, nonblock) ==
    userNonBlock' = IF fd \notin tracked THEN userNonBlock
                    ELSE IF nonblock THEN userNonBlock \cup {fd} ELSE userNonBlock \ {fd}

KernelMode(fd, nonblock) ==
    blocking' = IF nonblock THEN blocking \ {fd} ELSE blocking \cup {fd}

Clears(fd, yes) ==
    cleared' = IF yes THEN cleared \cup {fd} ELSE cleared \ {fd}

FlagCall(w, t) ==
    /\ Idle(w)
    /\ Plan[t].kind = "flags" /\ calls[t] < Plan[t].calls
    /\ Fd(t) \in opened
    /\ calls' = [calls EXCEPT ![t] = @ + 1]
    /\ UNCHANGED <<ioVars, pc, on, armed, due, cancelled, early, tracked, raced, pulled, untrue>>

Fcntl(w, t, nonblock) ==
    /\ FlagCall(w, t)
    /\ Asked(Fd(t), nonblock)
    /\ KernelMode(Fd(t), nonblock \/ Fd(t) \in tracked)
    /\ Clears(Fd(t), ~nonblock /\ Fd(t) \notin tracked)

Ioctl(w, t, nonblock) ==
    /\ FlagCall(w, t)
    /\ Asked(Fd(t), nonblock)
    /\ KernelMode(Fd(t), nonblock)
    /\ Clears(Fd(t), ~nonblock)

-------------------------------------------------------------------------------
TaskStep(w, t) ==
    \/ Start(w, t)
    \/ TrySucceeds(w, t)
    \/ TryBlocks(w, t)
    \/ PassBlocks(w, t)
    \/ ArmTimer(w, t)
    \/ TestSize(w, t)
    \/ ResizeContexts(w, t)
    \/ Register(w, t)
    \/ YieldToHold(w, t)
    \/ Resume(w, t)
    \/ TimedOut(w, t)
    \/ TryAgain(w, t)
    \/ CheckConnected(w, t)
    \/ Withdraw(w, t)

TimerStep(w, t) == Expire(w, t) \/ RunTimeout(w, t) \/ CancelWait(w, t) \/ EndSleep(w, t)

FlagStep(w, t) == \E nonblock \in BOOLEAN : Fcntl(w, t, nonblock) \/ Ioctl(w, t, nonblock)

IdleStep(w) == EpollWait(w) \/ \E e \in fetched[w] : HandleEvent(w, e)

\* mutant: the number is given back before the FdCtx is dropped
CloseStepSwapped(w, fd) ==
    \/ Close(w, fd) \/ Open(w, fd)
    \/ /\ on[w] = Closing(fd)
       /\ KernelClose(fd)
       /\ cleared' = cleared \ {fd} /\ blocking' = blocking \ {fd}
       /\ Does(w, Forgetting(fd))
       /\ UNCHANGED <<pc, calls, armed, due, cancelled, early, tracked, raced, pulled, untrue,
                      userNonBlock>>
    \/ /\ on[w] = Forgetting(fd)
       /\ tracked' = tracked \ {fd}
       /\ userNonBlock' = userNonBlock \ {fd}
       /\ Does(w, Nothing)
       /\ UNCHANGED <<ioVars, pc, calls, armed, due, cancelled, early, raced, pulled, untrue,
                      blocking, cleared>>

CloseStep(w, fd) == Close(w, fd) \/ ForgetCtx(w, fd) \/ CloseFile(w, fd) \/ Open(w, fd)

\* A sleep has nothing to do with a descriptor.
Busy == {Fd(t) : t \in {u \in cast : Plan[u].kind # "sleep"}}

\* A condition nobody would ask for makes no difference.
Felt(fd) == {"HUP"} \cup {Dir(t) : t \in {u \in cast : Fd(u) = fd}}

Kernel == \E fd \in Busy : \E c \in Felt(fd) : BecomesReady(fd, c) /\ UNCHANGED hookVars

Step ==
    \/ \E w \in crew, t \in cast : TaskStep(w, t) \/ TimerStep(w, t) \/ FlagStep(w, t)
    \/ \E w \in crew : IdleStep(w)
    \/ \E w \in crew, fd \in Busy : CloseStep(w, fd)
    \/ Kernel

\* A failed assertion, a wild read or a lost context is the end of the behaviour.
Next == fault = "none" /\ Step /\ UNCHANGED <<cast, crew>>

Spec == Init /\ [][Next]_vars

(***************************************************************************)
(* A statement follows the one before it (WF); a free worker in the end    *)
(* takes each entry of m_fibers and runs idleFun (SF): the list is scanned *)
(* from the front, and idleFun runs whenever nothing is in it.  A timer    *)
(* expires unless it is cancelled first; the next wait of the call has a   *)
(* timer of its own, with the full time.                                   *)
(***************************************************************************)
Disarm(w, t) == Expire(w, t) \/ (t \in armed /\ (TimedOut(w, t) \/ TryAgain(w, t)))

Moves(t) ==
    \E w \in crew :
        \/ TrySucceeds(w, t) \/ TryBlocks(w, t) \/ PassBlocks(w, t) \/ ArmTimer(w, t)
        \/ TestSize(w, t)
        \/ ResizeContexts(w, t) \/ Register(w, t) \/ YieldToHold(w, t)
        \/ TimedOut(w, t) \/ TryAgain(w, t) \/ CheckConnected(w, t)
        \/ CancelWait(w, t)

Fairly(A) == A /\ fault = "none" /\ UNCHANGED <<cast, crew>>

Fairness ==
    /\ \A t \in Waiters :
          /\ WF_vars(Fairly(Moves(t)))
          /\ SF_vars(Fairly(\E w \in crew : Resume(w, t)))
          /\ SF_vars(Fairly(\E w \in crew : Disarm(w, t)))
          /\ SF_vars(Fairly(\E w \in crew : RunTimeout(w, t) \/ EndSleep(w, t)))
    /\ SF_vars(Fairly(\E w \in crew : EpollWait(w)))
    /\ WF_vars(Fairly(\E w \in crew : \E e \in fetched[w] : HandleEvent(w, e)))
    /\ WF_vars(Fairly(\E w \in crew, fd \in Busy : ForgetCtx(w, fd) \/ CloseFile(w, fd)))

FairSpec == Spec /\ Fairness
-------------------------------------------------------------------------------
(***************************************************************************)
(* Properties.                                                             *)
(***************************************************************************)
Registrations(t) ==
    {r \in Fds \X Dirs : r[2] \in events[r[1]] /\ waiter[r[1]][r[2]] = t}

\* What will resume t: for a sleep its timer, on the way to m_fibers.
Wakeups(t) ==
    queued[t] + (IF Plan[t].kind = "sleep"
                 THEN Cardinality({t} \cap armed) + Cardinality({t} \cap due)
                 ELSE Cardinality(Registrations(t)))

Suspending(t) == pc[t] \in {"yield", "wait"}

\* Another call or callback may wait for the same direction of the same descriptor;
\* FdContext has one place for the two.
Shared(t) ==
    /\ Plan[t].kind # "sleep"
    /\ \E u \in cast \ {t} :
          Fd(u) = Fd(t) /\ Dir(u) = Dir(t) /\ Plan[u].kind \notin {"sleep", "flags"}

Alone == Cardinality(crew) = 1

(***************************************************************************)
(* FdContext::events and the epoll item say the same of every descriptor,  *)
(* whichever threads add, cancel and handle events, and whatever old       *)
(* events they handle: on this the choice between ADD, MOD and DEL rests.  *)
(* Only a close() that comes between a fiber's EAGAIN and its addEvent, or *)
(* between cancelAllEvent and close_f a new registration, breaks it.       *)
(***************************************************************************)
RegistrationAgrees ==
    \A fd \in opened \ raced : item[fd] = events[fd]

(***************************************************************************)
(* Edge-triggered events are not missed: while the condition a waiter is   *)
(* registered for holds, epoll has the descriptor on its ready list or a   *)
(* worker has it in hand.                                                  *)
(***************************************************************************)
NoEventMissed ==
    \A fd \in opened \ raced, d \in Dirs :
        d \in events[fd] /\ level[fd] \cap {d, "HUP"} # {} =>
            \/ fd \in listed
            \/ \E w \in Workers : \E e \in fetched[w] :
                  e.fd = fd /\ e.on \cap {d, "HUP"} # {}

(***************************************************************************)
(* A wait has exactly one wake-up - registered, the timer of a sleep, or   *)
(* in m_fibers: events, stale events, time-outs and close never give it    *)
(* two and never none.  Of two that wait for one direction of a descriptor *)
(* the later takes the place of the other, which is then forgotten.        *)
(***************************************************************************)
OneWakeupPerWait ==
    \A t \in Waiters :
        \/ Shared(t)
        \/ fault # "none"
        \/ Wakeups(t) = IF Suspending(t) THEN 1 ELSE 0

(***************************************************************************)
(* A suspended call on a socket with a timeout still has its timer, the    *)
(* timer's callback or a wake-up coming, unless the timer fired between    *)
(* addTimer and addEvent, for which it takes a second worker.              *)
(***************************************************************************)
TimedWaitsGuarded ==
    \A t \in Waiters :
        Plan[t].timed /\ Suspending(t) =>
            \/ t \in armed \cup due
            \/ \E w \in Workers : on[w] = TimingOut(t)
            \/ queued[t] > 0
            \/ t \in early /\ ~Alone
            \/ Fd(t) \in raced
            \/ Shared(t)

(***************************************************************************)
(* The assertions on epoll_ctl and on the waiter hold as long as no        *)
(* descriptor is closed under a call.  Whoever waits is found: his context *)
(* is in the vector, which with one worker never shrinks and is read past  *)
(* its end only for a descriptor equal to its size that nobody waited for. *)
(***************************************************************************)
AssertionsHold ==
    /\ fault = "assert" => raced # {}
    /\ fault = "shrunk" => ~Alone
    /\ fault = "bounds" => \E fd \in Fds : fd = size /\ events[fd] = {} /\ item[fd] = {}
    /\ \A fd \in Fds : events[fd] # {} => fd < size

(***************************************************************************)
(* connect() on an open descriptor does not report a connection that is    *)
(* not there, with one worker and unless another call waits for the same   *)
(* direction; a second worker may hold an event of the number's last owner.*)
(***************************************************************************)
ConnectTruthful == Alone => \A t \in untrue : Shared(t)

(***************************************************************************)
(* An open socket has its FdCtx and is nonblocking in the kernel, also     *)
(* when close() races the socket() that gets the number next, and whatever *)
(* the program does with O_NONBLOCK, unless it clears FIONBIO or its fcntl *)
(* comes when close() has dropped the FdCtx.  Without the one its calls    *)
(* would fail at once, without the other they would block the worker.      *)
(***************************************************************************)
OpenSocketsTracked ==
    /\ \A fd \in opened : fd \in tracked \/ \E w \in Workers : on[w] = Forgetting(fd)
    /\ blocking \subseteq cleared

(***************************************************************************)
(* One worker: each wait of a call on a socket with a timeout ends, and    *)
(* the call returns, with an answer or ETIMEDOUT, unless it is woken for   *)
(* nothing time and again: do_io cancels the timer then and arms one with  *)
(* the full timeout, which bounds a wait and not the call                  *)
(* (hook.cpp:131-164).                                                     *)
(***************************************************************************)
TimedCallsReturn ==
    \A t \in {u \in Waiters : Plan[u].timed} :
        []<>(pc[t] = "idle") \/ []<>(pc[t] = "woken" /\ t \notin cancelled)

(***************************************************************************)
(* One worker: a waiter whose condition holds is resumed, without relying  *)
(* on a timer: the edge is neither missed nor left with a worker.          *)
(***************************************************************************)
ReadyWaitersResume ==
    \A t \in Waiters :
        (pc[t] = "wait" /\ IsReady(t)) ~> (pc[t] # "wait" \/ ~IsReady(t))
===============================================================================
