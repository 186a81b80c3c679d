----------------------------- MODULE HookIO_proofs -----------------------------
(***************************************************************************)
(* Proofs about HookIO, for any descriptors, waiters, workers and plans.   *)
(***************************************************************************)
EXTENDS HookIO, FiniteSetTheorems, TLAPS

(***************************************************************************)
(* The epoll item and FdContext::events agree, also while the number is    *)
(* free: nothing is registered then; and whoever is registered has a       *)
(* context in the vector.                                                  *)
(***************************************************************************)
ItemInv ==
    \A fd \in Fds :
        /\ fd \notin raced => /\ item[fd] = events[fd]
                              /\ fd \notin opened => events[fd] = {}
        /\ events[fd] # {} \/ item[fd] # {} => fd < size

(***************************************************************************)
(* A direction that is registered has a waiter, who waits for it.          *)
(***************************************************************************)
WaiterInv ==
    \A fd \in Fds : \A d \in events[fd] :
        /\ waiter[fd][d] \in cast
        /\ Fd(waiter[fd][d]) = fd /\ Dir(waiter[fd][d]) = d
        /\ Plan[waiter[fd][d]].kind \notin {"sleep", "flags"}

(***************************************************************************)
(* What the workers do: a call between its beginning and its yield is on a *)
(* worker of the crew, the others do nothing; and events are in hand only  *)
(* in a round of idleFun.                                                  *)
(***************************************************************************)
Runs(t) == pc[t] \notin {"idle", "wait"}

WorkerInv ==
    /\ \A t \in Waiters : Runs(t) => \E w \in crew : on[w] = Executing(t)
    /\ \A w \in Workers \ crew : on[w] = Nothing
    /\ fault = "none" => \A w \in Workers : on[w] # Handling => fetched[w] = {}

(***************************************************************************)
(* close() has one caller for a descriptor, who drops the FdCtx first.     *)
(***************************************************************************)
Closes(w, fd) == on[w] \in {Closing(fd), Forgetting(fd)}

CloseInv ==
    /\ \A fd \in Fds : \A v, w \in Workers : Closes(v, fd) /\ Closes(w, fd) => v = w
    /\ \A fd \in Fds, w \in Workers :
          /\ on[w] = Closing(fd) => fd \in tracked
          /\ on[w] = Forgetting(fd) => fd \in opened \ tracked
    /\ tracked \subseteq opened
    /\ OpenSocketsTracked

(***************************************************************************)
(* The statements each kind of call comes to, and what holds there of the  *)
(* descriptor and of the vector.                                           *)
(***************************************************************************)
PcPart(t) ==
    /\ Plan[t].kind = "sleep" => pc[t] \in {"idle", "arm", "yield", "wait"}
    /\ Plan[t].kind = "callback" => pc[t] \in {"idle", "add", "resize", "lookup", "wait"}
    /\ Plan[t].kind = "flags" => pc[t] = "idle"
    /\ Plan[t].kind = "io" => pc[t] # "check"
    /\ /\ pc[t] \in {"arm", "add", "resize", "lookup"} /\ Plan[t].kind # "sleep"
       => Fd(t) \in opened \cup raced
    /\ pc[t] = "lookup" => Fd(t) <= size
    /\ Alone /\ pc[t] = "resize" => size <= Fd(t)

PcInv == \A t \in Waiters : PcPart(t)

(***************************************************************************)
(* Who is suspended has one wake-up, who is not has none.                  *)
(***************************************************************************)
Registered(t) == Dir(t) \in events[Fd(t)] /\ waiter[Fd(t)][Dir(t)] = t

WakesCall(t) ==
    IF Suspending(t) THEN IF Registered(t) THEN queued[t] = 0 ELSE queued[t] = 1
    ELSE ~Registered(t) /\ queued[t] = 0

WakesSleep(t) ==
    IF Suspending(t)
    THEN \/ t \in armed /\ t \notin due /\ queued[t] = 0
         \/ t \notin armed /\ t \in due /\ queued[t] = 0
         \/ t \notin armed /\ t \notin due /\ queued[t] = 1
    ELSE t \notin armed /\ t \notin due /\ queued[t] = 0

WakeInv ==
    \A t \in Waiters :
        /\ Plan[t].kind = "sleep" => WakesSleep(t)
        /\ Plan[t].kind # "sleep" => Shared(t) \/ fault # "none" \/ WakesCall(t)

(***************************************************************************)
(* The timer of a call: armed before the registration, and when it comes   *)
(* first it sets cancelled and then wakes the call.  With one worker that  *)
(* is while the call is suspended.                                         *)
(***************************************************************************)
HasTimer(t) == Plan[t].kind \in {"io", "connect"}

Guarded(t) ==
    \/ \E w \in Workers : on[w] = TimingOut(t)
    \/ queued[t] > 0
    \/ t \in early /\ ~Alone
    \/ Fd(t) \in raced
    \/ Shared(t)

TimerPart(t) ==
    /\ t \in armed \cup due \cup cancelled => t \in cast
    /\ pc[t] = "idle" \/ Plan[t].kind \in {"callback", "flags"}
          => t \notin armed \cup due \cup cancelled
    /\ t \in cancelled => HasTimer(t)
    /\ /\ Plan[t].timed /\ HasTimer(t)
       /\ pc[t] \in {"add", "resize", "lookup", "yield", "wait"}
       => t \in armed \cup due \cup cancelled
    /\ Alone /\ t \in cancelled => pc[t] \in {"wait", "woken"}
    /\ t \in cancelled /\ Suspending(t) /\ HasTimer(t) => Guarded(t)
    /\ \A w \in Workers : on[w] = TimingOut(t) =>
          t \in cast /\ HasTimer(t) /\ (Alone => t \in cancelled)

TimerInv == \A t \in Waiters : TimerPart(t)

(***************************************************************************)
(* With one worker, what epoll_wait reported still holds when it is        *)
(* handled, and a connect that is woken is so for a reason.                *)
(***************************************************************************)
Reason(t) ==
    IsReady(t) \/ t \in pulled \/ \E w \in Workers : Closes(w, Fd(t))

FreshEvents ==
    \A w \in Workers : \A e \in fetched[w] : e.on \subseteq level[e.fd]

ReasonPart(t) ==
    Plan[t].kind = "connect" /\ fault = "none" /\ ~Shared(t) =>
        /\ (Suspending(t) /\ queued[t] > 0) \/ pc[t] = "woken" => t \in cancelled \/ Reason(t)
        /\ pc[t] = "check" => Reason(t)

ConnectInv == Alone => FreshEvents /\ \A t \in Waiters : ReasonPart(t)

HookInv ==
    /\ TypeOK /\ ItemInv /\ WaiterInv /\ WorkerInv /\ CloseInv /\ PcInv
    /\ WakeInv /\ TimerInv /\ ConnectInv
    /\ NoEventMissed /\ AssertionsHold /\ ConnectTruthful

-----------------------------------------------------------------------------
(***************************************************************************)
(* The operations of IOEvents.                                             *)
(***************************************************************************)
LEMMA Counting ==
  ASSUME NEW S \in SUBSET Dirs
  PROVE  /\ Cardinality(S) \in Nat
         /\ S = {} => Cardinality(S) = 0
         /\ \A d : S = {d} => Cardinality(S) = 1
<1>1. IsFiniteSet(Dirs)
  <2>1. IsFiniteSet({}) /\ IsFiniteSet({} \cup {"READ"})
    BY FS_EmptySet, FS_AddElement
  <2>2. IsFiniteSet(({} \cup {"READ"}) \cup {"WRITE"})
    BY <2>1, FS_AddElement
  <2>3. Dirs = ({} \cup {"READ"}) \cup {"WRITE"}
    BY DEF Dirs
  <2> QED
    BY <2>2, <2>3
<1>2. IsFiniteSet(S)
  BY <1>1, FS_Subset
<1> QED
  BY <1>2, FS_CardinalityType, FS_EmptySet, FS_Singleton

(* What triggerEvent adds to m_fibers.                                     *)
LEMMA TriggeredFacts ==
  ASSUME IOTypeOK, NEW fd \in Fds, NEW ds \in SUBSET Dirs
  PROVE  /\ Triggered(fd, ds) \in [Waiters -> Nat]
         /\ \A t \in Waiters :
               /\ Triggered(fd, ds)[t] >= queued[t]
               /\ (\A d \in ds : waiter[fd][d] # t) => Triggered(fd, ds)[t] = queued[t]
               /\ \A c \in ds :
                     waiter[fd][c] = t /\ (\A d \in ds : waiter[fd][d] = t => d = c)
                        => Triggered(fd, ds)[t] = queued[t] + 1
<1> DEFINE Those(t) == {d \in ds : waiter[fd][d] = t}
<1>1. \A t \in Waiters : queued[t] \in Nat
  BY DEF IOTypeOK
<1>2. \A t \in Waiters : Triggered(fd, ds)[t] = queued[t] + Cardinality(Those(t))
  BY DEF Triggered
<1>3. Triggered(fd, ds) = [t \in Waiters |-> queued[t] + Cardinality(Those(t))]
  BY DEF Triggered
<1>4. \A t : Those(t) \in SUBSET Dirs
  OBVIOUS
<1>5. \A t : /\ Cardinality(Those(t)) \in Nat
             /\ Those(t) = {} => Cardinality(Those(t)) = 0
             /\ \A d : Those(t) = {d} => Cardinality(Those(t)) = 1
  BY <1>4, Counting
<1>6. \A t : (\A d \in ds : waiter[fd][d] # t) => Those(t) = {}
  OBVIOUS
<1>7. \A t : \A c \in ds : waiter[fd][c] = t /\ (\A d \in ds : waiter[fd][d] = t => d = c)
                => Those(t) = {c}
  OBVIOUS
<1> HIDE DEF Those
<1>8. Triggered(fd, ds) \in [Waiters -> Nat]
  BY <1>1, <1>3, <1>5
<1>9. ASSUME NEW t \in Waiters
      PROVE  /\ Triggered(fd, ds)[t] >= queued[t]
             /\ (\A d \in ds : waiter[fd][d] # t) => Triggered(fd, ds)[t] = queued[t]
             /\ \A c \in ds :
                   waiter[fd][c] = t /\ (\A d \in ds : waiter[fd][d] = t => d = c)
                      => Triggered(fd, ds)[t] = queued[t] + 1
  <2>1. /\ queued[t] \in Nat /\ Cardinality(Those(t)) \in Nat
        /\ Triggered(fd, ds)[t] = queued[t] + Cardinality(Those(t))
    BY <1>1, <1>2, <1>5
  <2>2. (\A d \in ds : waiter[fd][d] # t) => Cardinality(Those(t)) = 0
    BY <1>5, <1>6
  <2>3. \A c \in ds : waiter[fd][c] = t /\ (\A d \in ds : waiter[fd][d] = t => d = c)
                     => Cardinality(Those(t)) = 1
    BY <1>5, <1>7
  <2> QED
    BY <2>1, <2>2, <2>3
<1> QED
  BY <1>8, <1>9

LEMMA ForgottenFacts ==
  ASSUME IOTypeOK, NEW fd \in Fds, NEW ds
  PROVE  /\ Forgotten(fd, ds) \in [Fds -> [Dirs -> Waiters \cup {Nobody}]]
         /\ \A f \in Fds, d \in Dirs :
               Forgotten(fd, ds)[f][d] = IF f = fd /\ d \in ds THEN Nobody ELSE waiter[f][d]
  BY DEF IOTypeOK, Forgotten

(* A successful epoll_ctl.                                                 *)
LEMMA WatchFacts ==
  ASSUME IOTypeOK, NEW fd \in Fds, NEW mask \in SUBSET Dirs, Watch(fd, mask)
  PROVE  /\ item' \in [Fds -> SUBSET Dirs] /\ listed' \subseteq Fds
         /\ \A f \in Fds : item'[f] = IF f = fd THEN mask ELSE item[f]
         /\ \A f \in Fds \ {fd} : f \in listed' <=> f \in listed
         /\ \A d \in mask : level[fd] \cap {d, "HUP"} # {} => fd \in listed'
<1>1. item' = [item EXCEPT ![fd] = mask] /\ item \in [Fds -> SUBSET Dirs]
  BY DEF Watch, IOTypeOK
<1>2. listed' = (IF Reported(fd, mask) = {} THEN listed \ {fd} ELSE listed \cup {fd})
  BY DEF Watch
<1>3. \A d \in mask : level[fd] \cap {d, "HUP"} # {} => Reported(fd, mask) # {}
  BY DEF Reported
<1>4. listed \subseteq Fds
  BY DEF IOTypeOK
<1> QED
  BY <1>1, <1>2, <1>3, <1>4

(* addEvent that comes to its end.                                         *)
Added(t, fd, d) ==
    /\ fd < size /\ ~CtlFails(fd, events[fd])
    /\ waiter' = [waiter EXCEPT ![fd][d] = t]
    /\ events' = [events EXCEPT ![fd] = @ \cup {d}]
    /\ Watch(fd, events[fd] \cup {d})
    /\ UNCHANGED <<size, queued, fetched, level, opened, fault>>

LEMMA AddedFacts ==
  ASSUME IOTypeOK, NEW t \in Waiters, NEW fd \in Fds, NEW d \in Dirs, Added(t, fd, d)
  PROVE  /\ events' \in [Fds -> SUBSET Dirs]
         /\ waiter' \in [Fds -> [Dirs -> Waiters \cup {Nobody}]]
         /\ item' \in [Fds -> SUBSET Dirs] /\ listed' \subseteq Fds
         /\ events[fd] \cup {d} \in SUBSET Dirs
         /\ events'[fd] = events[fd] \cup {d} /\ item'[fd] = events[fd] \cup {d}
         /\ \A f \in Fds : f # fd => events'[f] = events[f] /\ item'[f] = item[f]
         /\ waiter'[fd][d] = t
         /\ \A f \in Fds, c \in Dirs : f # fd \/ c # d => waiter'[f][c] = waiter[f][c]
<1>1. events[fd] \cup {d} \in SUBSET Dirs
  BY DEF IOTypeOK
<1>2. /\ item' \in [Fds -> SUBSET Dirs] /\ listed' \subseteq Fds
      /\ \A f \in Fds : item'[f] = IF f = fd THEN events[fd] \cup {d} ELSE item[f]
  BY <1>1, WatchFacts DEF Added
<1>3. events' = [events EXCEPT ![fd] = @ \cup {d}] /\ events \in [Fds -> SUBSET Dirs]
  BY DEF Added, IOTypeOK
<1>4. /\ events' \in [Fds -> SUBSET Dirs]
      /\ \A f \in Fds : events'[f] = IF f = fd THEN events[fd] \cup {d} ELSE events[f]
  BY <1>1, <1>3
<1>5. /\ waiter' = [waiter EXCEPT ![fd][d] = t]
      /\ waiter \in [Fds -> [Dirs -> Waiters \cup {Nobody}]]
  BY DEF Added, IOTypeOK
<1>6. /\ waiter' \in [Fds -> [Dirs -> Waiters \cup {Nobody}]]
      /\ \A f \in Fds, c \in Dirs :
            waiter'[f][c] = IF f = fd /\ c = d THEN t ELSE waiter[f][c]
  BY <1>5
<1> QED
  BY <1>1, <1>2, <1>4, <1>6

LEMMA AddEventCases ==
  ASSUME IOTypeOK, NEW t, NEW fd \in Fds, NEW d, AddEvent(t, fd, d)
  PROVE  \/ End("bounds") /\ fd >= size
         \/ End("assert") /\ fd < size /\ CtlFails(fd, events[fd])
         \/ Added(t, fd, d)
<1>1. fd \in Int /\ size \in Int
  BY IOAssumption DEF IOTypeOK
<1> QED
  BY <1>1 DEF AddEvent, Added

(* delEvent, cancelEvent and cancelAllEvent that take something out.       *)
Removed(fd, ds, woken) ==
    /\ fd < size /\ events[fd] \cap ds # {}
    /\ events' = [events EXCEPT ![fd] = @ \ ds]
    /\ Watch(fd, events[fd] \ ds)
    /\ queued' = IF woken THEN Triggered(fd, events[fd] \cap ds) ELSE queued
    /\ waiter' = Forgotten(fd, events[fd] \cap ds)
    /\ UNCHANGED <<size, fetched, level, opened, fault>>

LEMMA RemoveCases ==
  ASSUME IOTypeOK, NEW fd \in Fds, NEW ds, NEW woken \in BOOLEAN, Remove(fd, ds, woken)
  PROVE  \/ UNCHANGED ioVars /\ (size < fd \/ events[fd] \cap ds = {})
         \/ End("bounds") /\ size = fd
         \/ /\ End("assert") /\ events[fd] \cap ds # {} /\ fd < size
            /\ CtlFails(fd, events[fd]) \/ TriggerAsserts(fd, events[fd] \cap ds)
         \/ Removed(fd, ds, woken)
<1>1. fd \in Int /\ size \in Int
  BY IOAssumption DEF IOTypeOK
<1>2. CASE size < fd
  BY <1>1, <1>2 DEF Remove
<1>3. CASE size = fd
  BY <1>1, <1>3 DEF Remove
<1>4. CASE fd < size /\ events[fd] \cap ds = {}
  BY <1>1, <1>4 DEF Remove
<1>5. CASE /\ fd < size /\ events[fd] \cap ds # {}
           /\ \/ CtlFails(fd, events[fd])
              \/ woken /\ TriggerAsserts(fd, events[fd] \cap ds)
  BY <1>1, <1>5 DEF Remove
<1>6. CASE /\ fd < size /\ events[fd] \cap ds # {}
           /\ ~CtlFails(fd, events[fd])
           /\ ~(woken /\ TriggerAsserts(fd, events[fd] \cap ds))
  BY <1>1, <1>6 DEF Remove, Removed
<1> QED
  BY <1>1, <1>2, <1>3, <1>4, <1>5, <1>6

LEMMA RemovedFacts ==
  ASSUME IOTypeOK, NEW fd \in Fds, NEW ds, NEW woken \in BOOLEAN, Removed(fd, ds, woken)
  PROVE  /\ events' \in [Fds -> SUBSET Dirs]
         /\ waiter' \in [Fds -> [Dirs -> Waiters \cup {Nobody}]]
         /\ item' \in [Fds -> SUBSET Dirs] /\ listed' \subseteq Fds
         /\ queued' \in [Waiters -> Nat]
         /\ events[fd] \ ds \in SUBSET Dirs /\ events[fd] \cap ds \in SUBSET Dirs
         /\ events'[fd] = events[fd] \ ds /\ item'[fd] = events[fd] \ ds
         /\ \A f \in Fds : f # fd => events'[f] = events[f] /\ item'[f] = item[f]
         /\ \A f \in Fds : \A c \in events'[f] : waiter'[f][c] = waiter[f][c]
         /\ \A t \in Waiters :
               /\ queued'[t] >= queued[t]
               /\ ~woken => queued'[t] = queued[t]
<1>1. events[fd] \ ds \in SUBSET Dirs /\ events[fd] \cap ds \in SUBSET Dirs
  BY DEF IOTypeOK
<1>2. /\ item' \in [Fds -> SUBSET Dirs] /\ listed' \subseteq Fds
      /\ \A f \in Fds : item'[f] = IF f = fd THEN events[fd] \ ds ELSE item[f]
  BY <1>1, WatchFacts DEF Removed
<1>3. events' = [events EXCEPT ![fd] = @ \ ds] /\ events \in [Fds -> SUBSET Dirs]
  BY DEF Removed, IOTypeOK
<1>4. /\ events' \in [Fds -> SUBSET Dirs]
      /\ \A f \in Fds : events'[f] = IF f = fd THEN events[fd] \ ds ELSE events[f]
  BY <1>1, <1>3
<1>5. /\ waiter' \in [Fds -> [Dirs -> Waiters \cup {Nobody}]]
      /\ \A f \in Fds, c \in Dirs :
            waiter'[f][c] = IF f = fd /\ c \in events[fd] \cap ds THEN Nobody
                            ELSE waiter[f][c]
  BY ForgottenFacts DEF Removed
<1>6. \A f \in Fds : \A c \in events'[f] : waiter'[f][c] = waiter[f][c]
  BY <1>1, <1>4, <1>5
<1>7. /\ queued \in [Waiters -> Nat]
      /\ Triggered(fd, events[fd] \cap ds) \in [Waiters -> Nat]
      /\ \A t \in Waiters : Triggered(fd, events[fd] \cap ds)[t] >= queued[t]
  BY <1>1, TriggeredFacts DEF IOTypeOK
<1>8. queued' = IF woken THEN Triggered(fd, events[fd] \cap ds) ELSE queued
  BY DEF Removed
<1>9. /\ queued' \in [Waiters -> Nat]
      /\ \A t \in Waiters : /\ queued'[t] >= queued[t]
                            /\ ~woken => queued'[t] = queued[t]
  BY <1>7, <1>8
<1> QED
  BY <1>1, <1>2, <1>4, <1>5, <1>6, <1>9

(* The handling of one event.                                              *)
Handled(w, e) ==
    /\ IF item[e.fd] = {} THEN UNCHANGED <<item, listed>> ELSE Watch(e.fd, LeftEvent(e))
    /\ events' = [events EXCEPT ![e.fd] = @ \ RealEvent(e)]
    /\ queued' = Triggered(e.fd, RealEvent(e))
    /\ fetched' = [fetched EXCEPT ![w] = @ \ {e}]
    /\ UNCHANGED <<size, waiter, level, opened, fault>>

LEMMA HandleCases ==
  ASSUME NEW w, NEW e, Handle(w, e)
  PROVE  \/ End("assert") /\ TriggerAsserts(e.fd, RealEvent(e))
         \/ Handled(w, e)
  BY DEF Handle, Handled

LEMMA HandledFacts ==
  ASSUME IOTypeOK, NEW w \in Workers, NEW e \in fetched[w], Handled(w, e)
  PROVE  /\ e.fd \in Fds /\ e.on \in SUBSET Conditions
         /\ RealEvent(e) \in SUBSET Dirs /\ RealEvent(e) \subseteq events[e.fd]
         /\ events' \in [Fds -> SUBSET Dirs]
         /\ item' \in [Fds -> SUBSET Dirs] /\ listed' \subseteq Fds
         /\ queued' \in [Waiters -> Nat]
         /\ fetched' \in [Workers -> SUBSET [fd : Fds, on : SUBSET Conditions]]
         /\ events'[e.fd] = events[e.fd] \ RealEvent(e)
         /\ item[e.fd] = {} => item'[e.fd] = {}
         /\ \A f \in Fds : f # e.fd => events'[f] = events[f] /\ item'[f] = item[f]
         /\ \A t \in Waiters : queued'[t] >= queued[t]
         /\ \A v \in Workers : fetched'[v] = IF v = w THEN fetched[w] \ {e} ELSE fetched[v]
<1>1. /\ e.fd \in Fds /\ e.on \in SUBSET Conditions
      /\ RealEvent(e) \in SUBSET Dirs /\ RealEvent(e) \subseteq events[e.fd]
      /\ LeftEvent(e) \in SUBSET Dirs /\ LeftEvent(e) = events[e.fd] \ RealEvent(e)
  BY DEF IOTypeOK, RealEvent, LeftEvent
<1>2. /\ item' \in [Fds -> SUBSET Dirs] /\ listed' \subseteq Fds
      /\ \A f \in Fds : item'[f] = IF f = e.fd /\ item[f] # {} THEN LeftEvent(e) ELSE item[f]
  <2>1. CASE item[e.fd] = {}
    BY <1>1, <2>1 DEF IOTypeOK, Handled
  <2>2. CASE item[e.fd] # {}
    <3>1. Watch(e.fd, LeftEvent(e))
      BY <2>2 DEF Handled
    <3> QED
      BY <1>1, <2>2, <3>1, WatchFacts
  <2> QED
    BY <2>1, <2>2
<1>3. /\ events' = [events EXCEPT ![e.fd] = @ \ RealEvent(e)]
      /\ events \in [Fds -> SUBSET Dirs]
  BY DEF Handled, IOTypeOK
<1>4. /\ events' \in [Fds -> SUBSET Dirs]
      /\ \A f \in Fds : events'[f] = IF f = e.fd THEN events[f] \ RealEvent(e) ELSE events[f]
  BY <1>1, <1>3
<1>5. queued' \in [Waiters -> Nat] /\ \A t \in Waiters : queued'[t] >= queued[t]
  BY <1>1, TriggeredFacts DEF Handled
<1>6. /\ fetched' = [fetched EXCEPT ![w] = @ \ {e}]
      /\ fetched \in [Workers -> SUBSET [fd : Fds, on : SUBSET Conditions]]
  BY DEF Handled, IOTypeOK
<1>7. /\ fetched' \in [Workers -> SUBSET [fd : Fds, on : SUBSET Conditions]]
      /\ \A v \in Workers : fetched'[v] = IF v = w THEN fetched[w] \ {e} ELSE fetched[v]
  BY <1>6
<1> QED
  BY <1>1, <1>2, <1>4, <1>5, <1>7

LEMMA HandledItem ==
  ASSUME IOTypeOK, NEW w \in Workers, NEW e \in fetched[w], Handled(w, e),
         item[e.fd] # {}
  PROVE  item'[e.fd] = events'[e.fd]
<1>1. /\ e.fd \in Fds /\ RealEvent(e) \subseteq events[e.fd]
      /\ LeftEvent(e) \in SUBSET Dirs /\ LeftEvent(e) = events[e.fd] \ RealEvent(e)
  BY DEF IOTypeOK, RealEvent, LeftEvent
<1>2. Watch(e.fd, LeftEvent(e))
  BY DEF Handled
<1>3. item'[e.fd] = LeftEvent(e)
  BY <1>1, <1>2, WatchFacts
<1>4. events'[e.fd] = LeftEvent(e)
  BY <1>1 DEF IOTypeOK, Handled
<1> QED
  BY <1>3, <1>4

LEMMA HandledOthers ==
  ASSUME IOTypeOK, NEW w \in Workers, NEW e \in fetched[w], Handled(w, e),
         NEW f \in Fds, f # e.fd
  PROVE  events'[f] = events[f] /\ item'[f] = item[f]
<1>1. /\ e.fd \in Fds /\ LeftEvent(e) \in SUBSET Dirs
      /\ events \in [Fds -> SUBSET Dirs] /\ item \in [Fds -> SUBSET Dirs]
  BY DEF IOTypeOK, LeftEvent
<1>2. events'[f] = events[f]
  BY <1>1 DEF Handled
<1>3. item'[f] = item[f]
  BY <1>1 DEF Handled, Watch
<1> QED
  BY <1>2, <1>3

(* epoll_wait.                                                             *)
LEMMA FetchFacts ==
  ASSUME IOTypeOK, NEW w \in Workers, Fetch(w)
  PROVE  /\ fetched' \in [Workers -> SUBSET [fd : Fds, on : SUBSET Conditions]]
         /\ \A v \in Workers \ {w} : fetched'[v] = fetched[v]
         /\ \A fd \in ToFetch : [fd |-> fd, on |-> Reported(fd, item[fd])] \in fetched'[w]
         /\ \A e \in fetched'[w] : e.fd \in Fds /\ e.on = Reported(e.fd, item[e.fd])
         /\ listed' = {}
         /\ UNCHANGED <<size, events, waiter, queued, item, level, opened, fault>>
<1> DEFINE Batch == {[fd |-> fd, on |-> Reported(fd, item[fd])] : fd \in ToFetch}
<1>1. \A fd \in ToFetch : fd \in Fds /\ Reported(fd, item[fd]) \in SUBSET Conditions
  BY DEF ToFetch, Reported, IOTypeOK, Conditions
<1>2. Batch \in SUBSET [fd : Fds, on : SUBSET Conditions]
  BY <1>1
<1>3. \A e \in Batch : e.fd \in Fds /\ e.on = Reported(e.fd, item[e.fd])
  BY <1>1
<1>4. \A fd \in ToFetch : [fd |-> fd, on |-> Reported(fd, item[fd])] \in Batch
  OBVIOUS
<1>5. fetched' = [fetched EXCEPT ![w] = Batch] /\ listed' = {}
  BY DEF Fetch
<1> HIDE DEF Batch
<1>6. fetched \in [Workers -> SUBSET [fd : Fds, on : SUBSET Conditions]]
  BY DEF IOTypeOK
<1>7. /\ fetched' \in [Workers -> SUBSET [fd : Fds, on : SUBSET Conditions]]
      /\ fetched'[w] = Batch /\ \A v \in Workers \ {w} : fetched'[v] = fetched[v]
  BY <1>2, <1>5, <1>6
<1> QED
  BY <1>3, <1>4, <1>5, <1>7 DEF Fetch

-----------------------------------------------------------------------------
(***************************************************************************)
(* Types.                                                                  *)
(***************************************************************************)
LEMMA PlanFacts ==
  \A t \in Waiters :
     /\ Fd(t) \in Fds /\ Dir(t) \in Dirs /\ Dir(t) # "HUP"
     /\ Plan[t].timed \in BOOLEAN /\ Plan[t].calls \in Nat
     /\ Plan[t].kind \in {"io", "connect", "callback", "sleep", "flags"}
     /\ Plan[t].kind = "callback" => ~Plan[t].timed
  BY HookAssumption DEF Fd, Dir, Dirs

(* What a worker executes tells what it is.                                *)
LEMMA Activities ==
  /\ Nothing \in Activity /\ Handling \in Activity
  /\ \A t \in Waiters : Executing(t) \in Activity /\ TimingOut(t) \in Activity
  /\ \A fd \in Fds : Closing(fd) \in Activity /\ Forgetting(fd) \in Activity
  /\ Nothing # Handling
  /\ \A t : /\ Executing(t) # Nothing /\ Executing(t) # Handling
            /\ TimingOut(t) # Nothing /\ TimingOut(t) # Handling
  /\ \A t, u : /\ Executing(t) # TimingOut(u)
               /\ Executing(t) = Executing(u) => t = u
               /\ TimingOut(t) = TimingOut(u) => t = u
  /\ \A fd : /\ Closing(fd) # Nothing /\ Closing(fd) # Handling
             /\ Forgetting(fd) # Nothing /\ Forgetting(fd) # Handling
  /\ \A fd, gd : /\ Closing(fd) # Forgetting(gd)
                 /\ Closing(fd) = Closing(gd) => fd = gd
                 /\ Forgetting(fd) = Forgetting(gd) => fd = gd
  /\ \A fd, t : /\ Closing(fd) # Executing(t) /\ Closing(fd) # TimingOut(t)
                /\ Forgetting(fd) # Executing(t) /\ Forgetting(fd) # TimingOut(t)
<1>1. /\ \A t : Executing(t).does = "task" /\ Executing(t).who = t
      /\ \A t : TimingOut(t).does = "timeout" /\ TimingOut(t).who = t
      /\ \A fd : Closing(fd).does = "close" /\ Closing(fd).fd = fd
      /\ \A fd : Forgetting(fd).does = "forget" /\ Forgetting(fd).fd = fd
      /\ Nothing.does = "nothing" /\ Handling.does = "idle"
  BY DEF Executing, TimingOut, Closing, Forgetting, Nothing, Handling
<1>2. /\ Nothing \in Activity /\ Handling \in Activity
      /\ \A t \in Waiters : Executing(t) \in Activity /\ TimingOut(t) \in Activity
      /\ \A fd \in Fds : Closing(fd) \in Activity /\ Forgetting(fd) \in Activity
  BY DEF Executing, TimingOut, Closing, Forgetting, Nothing, Handling, Activity
<1> QED
  BY <1>1, <1>2

(* The actions that leave IOEvents alone.                                  *)
Aside(w, t) ==
    \/ Start(w, t) \/ TryBlocks(w, t) \/ PassBlocks(w, t) \/ ArmTimer(w, t)
    \/ TestSize(w, t) \/ YieldToHold(w, t) \/ TimedOut(w, t) \/ TryAgain(w, t)
    \/ CheckConnected(w, t) \/ Expire(w, t) \/ RunTimeout(w, t) \/ FlagStep(w, t)

LEMMA AsideFacts ==
  ASSUME NEW w, NEW t, Aside(w, t)
  PROVE  UNCHANGED ioVars /\ UNCHANGED <<raced, tracked>>
  BY DEF Aside, Start, TryBlocks, PassBlocks, ArmTimer, TestSize, YieldToHold, TimedOut,
         TryAgain, CheckConnected, Expire, RunTimeout, FlagStep, Fcntl, Ioctl, FlagCall

(* Resize: the vector grows, or a wrong resize ends the behaviour.         *)
LEMMA ResizeFacts ==
  ASSUME IOTypeOK, NEW fd \in Fds, Resize(fd)
  PROVE  /\ UNCHANGED <<events, waiter, queued, fetched, item, listed, level, opened>>
         /\ size' \in Nat /\ size <= size'
         /\ \/ size' = size /\ fault' = "shrunk" /\ NewSize(fd) < size
            \/ size' = NewSize(fd) /\ fault' = fault
         /\ NewSize(fd) >= fd
<1>1. fd \in Nat /\ size \in Nat
  BY IOAssumption DEF IOTypeOK
<1>2. NewSize(fd) \in Nat /\ NewSize(fd) >= fd
  BY <1>1 DEF NewSize
<1> QED
  BY <1>1, <1>2 DEF Resize, End

LEMMA LevelFacts ==
  ASSUME TypeOK, NEW w, NEW t \in Waiters, TrySucceeds(w, t)
  PROVE  /\ level' \in [Fds -> SUBSET Conditions]
         /\ \A f \in Fds : /\ level'[f] \subseteq level[f]
                           /\ f # Fd(t) => level'[f] = level[f]
                           /\ level[f] \ {Dir(t)} \subseteq level'[f]
         /\ Plan[t].kind = "connect" => level' = level
<1>1. Fd(t) \in Fds /\ Dir(t) \in Dirs /\ level \in [Fds -> SUBSET Conditions]
  BY PlanFacts DEF TypeOK, IOTypeOK
<1>2. CASE Fd(t) \notin opened
  BY <1>1, <1>2 DEF TrySucceeds
<1>3. CASE Fd(t) \in opened
  <2>1. PICK used \in SUBSET ({Dir(t)} \ (IF Plan[t].kind = "connect" THEN Dirs ELSE {})) :
           level' = [level EXCEPT ![Fd(t)] = @ \ used]
    BY <1>3 DEF TrySucceeds
  <2>2. used \subseteq {Dir(t)} /\ (Plan[t].kind = "connect" => used = {})
    BY <1>1, <2>1
  <2> QED
    BY <1>1, <2>1, <2>2
<1> QED
  BY <1>2, <1>3

LEMMA TaskIOTypes ==
  ASSUME TypeOK, NEW w \in Workers, NEW t \in Waiters, TaskStep(w, t)
  PROVE  IOTypeOK'
<1>0. IOTypeOK /\ Fd(t) \in Fds /\ Dir(t) \in Dirs
  BY PlanFacts DEF TypeOK
<1>1. CASE UNCHANGED ioVars
  BY <1>0, <1>1 DEF IOTypeOK, ioVars
<1>2. CASE TrySucceeds(w, t)
  BY <1>0, <1>2, LevelFacts DEF TrySucceeds, IOTypeOK
<1>3. CASE ResizeContexts(w, t)
  <2>1. Resize(Fd(t))
    BY <1>3 DEF ResizeContexts
  <2> QED
    BY <1>0, <2>1, ResizeFacts DEF IOTypeOK
<1>4. CASE Register(w, t)
  <2>1. AddEvent(t, Fd(t), Dir(t))
    BY <1>4 DEF Register
  <2>2. CASE End("bounds") \/ End("assert")
    BY <1>0, <2>2 DEF IOTypeOK, End
  <2>3. CASE Added(t, Fd(t), Dir(t))
    BY <1>0, <2>3, AddedFacts DEF IOTypeOK, Added
  <2> QED
    BY <1>0, <2>1, <2>2, <2>3, AddEventCases
<1>5. CASE Resume(w, t)
  <2>1. queued' = [queued EXCEPT ![t] = @ - 1] /\ queued[t] > 0
    BY <1>5 DEF Resume
  <2>2. queued' \in [Waiters -> Nat]
    BY <1>0, <2>1 DEF IOTypeOK
  <2> QED
    BY <1>0, <1>5, <2>2 DEF IOTypeOK, Resume
<1>6. CASE Withdraw(w, t)
  <2>1. Remove(Fd(t), {Dir(t)}, FALSE)
    BY <1>6 DEF Withdraw, DelEvent
  <2>2. CASE End("bounds") \/ End("assert")
    BY <1>0, <2>2 DEF IOTypeOK, End
  <2>3. CASE Removed(Fd(t), {Dir(t)}, FALSE)
    BY <1>0, <2>3, RemovedFacts DEF IOTypeOK, Removed
  <2> QED
    BY <1>0, <1>1, <2>1, <2>2, <2>3, RemoveCases
<1> QED
  BY <1>1, <1>2, <1>3, <1>4, <1>5, <1>6, AsideFacts DEF TaskStep, Aside

LEMMA OtherIOTypes ==
  ASSUME TypeOK, NEW w \in Workers
  PROVE  /\ \A t \in Waiters : TimerStep(w, t) \/ FlagStep(w, t) => IOTypeOK'
         /\ IdleStep(w) => IOTypeOK'
         /\ \A fd \in Fds : CloseStep(w, fd) => IOTypeOK'
<1>0. IOTypeOK
  BY DEF TypeOK
<1>1. ASSUME UNCHANGED ioVars
      PROVE  IOTypeOK'
  BY <1>0, <1>1 DEF IOTypeOK, ioVars
<1>2. ASSUME NEW fd \in Fds, NEW ds, Remove(fd, ds, TRUE)
      PROVE  IOTypeOK'
  <2>1. CASE End("bounds") \/ End("assert")
    BY <1>0, <2>1 DEF IOTypeOK, End
  <2>2. CASE Removed(fd, ds, TRUE)
    BY <1>0, <2>2, RemovedFacts DEF IOTypeOK, Removed
  <2> QED
    BY <1>0, <1>1, <1>2, <2>1, <2>2, RemoveCases
<1>3. ASSUME NEW t \in Waiters, CancelWait(w, t)
      PROVE  IOTypeOK'
  BY <1>2, <1>3, PlanFacts DEF CancelWait, CancelEvent
<1>4. ASSUME NEW t \in Waiters, EndSleep(w, t)
      PROVE  IOTypeOK'
  <2>1. queued' \in [Waiters -> Nat]
    BY <1>0, <1>4 DEF IOTypeOK, EndSleep
  <2> QED
    BY <1>0, <1>4, <2>1 DEF IOTypeOK, EndSleep
<1>5. CASE EpollWait(w)
  <2>1. Fetch(w)
    BY <1>5 DEF EpollWait
  <2> QED
    BY <1>0, <2>1, FetchFacts DEF IOTypeOK
<1>6. ASSUME NEW e \in fetched[w], HandleEvent(w, e)
      PROVE  IOTypeOK'
  <2>1. Handle(w, e)
    BY <1>6 DEF HandleEvent
  <2>2. CASE End("assert")
    BY <1>0, <2>2 DEF IOTypeOK, End
  <2>3. CASE Handled(w, e)
    BY <1>0, <2>3, HandledFacts DEF IOTypeOK, Handled
  <2> QED
    BY <2>1, <2>2, <2>3, HandleCases
<1>7. ASSUME NEW fd \in Fds, Close(w, fd)
      PROVE  IOTypeOK'
  BY <1>2, <1>7 DEF Close, CancelAllEvent
<1>8. ASSUME NEW fd \in Fds, ForgetCtx(w, fd)
      PROVE  IOTypeOK'
  BY <1>1, <1>8 DEF ForgetCtx
<1>9. ASSUME NEW fd \in Fds, CloseFile(w, fd)
      PROVE  IOTypeOK'
  BY <1>0, <1>9 DEF CloseFile, KernelClose, IOTypeOK
<1>10. ASSUME NEW fd \in Fds, Open(w, fd)
       PROVE  IOTypeOK'
  BY <1>0, <1>10 DEF Open, KernelOpen, IOTypeOK
<1> QED
  BY <1>1, <1>3, <1>4, <1>5, <1>6, <1>7, <1>8, <1>9, <1>10, AsideFacts
     DEF TimerStep, IdleStep, CloseStep, Aside

HookTypeOK ==
    /\ cast \subseteq Waiters /\ crew \subseteq Workers
    /\ pc \in [Waiters -> Statements] /\ calls \in [Waiters -> Nat]
    /\ on \in [Workers -> Activity]
    /\ armed \subseteq Waiters /\ due \subseteq Waiters /\ cancelled \subseteq Waiters
    /\ early \subseteq Waiters /\ tracked \subseteq Fds /\ raced \subseteq Fds
    /\ pulled \subseteq Waiters /\ untrue \subseteq Waiters
    /\ userNonBlock \subseteq Fds /\ blocking \subseteq Fds /\ cleared \subseteq Fds

LEMMA TypeParts == TypeOK <=> IOTypeOK /\ HookTypeOK
  BY DEF TypeOK, HookTypeOK

LEMMA ReturnTypes ==
  ASSUME HookTypeOK, NEW w \in Workers, NEW t \in Waiters, Return(w, t)
  PROVE  /\ pc' \in [Waiters -> Statements] /\ on' \in [Workers -> Activity]
         /\ armed' \subseteq Waiters /\ due' \subseteq Waiters
         /\ cancelled' \subseteq Waiters /\ early' \subseteq Waiters
         /\ pulled' \subseteq Waiters
  BY Activities DEF HookTypeOK, Return, Goto, Does, Statements

LEMMA TaskTypes ==
  ASSUME HookTypeOK, NEW w \in Workers, NEW t \in Waiters, TaskStep(w, t),
         UNCHANGED <<cast, crew>>
  PROVE  HookTypeOK'
<1>1. CASE Start(w, t)
  BY <1>1, Activities DEF HookTypeOK, Start, Goto, Does, flagVars, Statements
<1>2. CASE TrySucceeds(w, t)
  BY <1>2, ReturnTypes DEF HookTypeOK, TrySucceeds, flagVars
<1>3. CASE TryBlocks(w, t)
  BY <1>3 DEF HookTypeOK, TryBlocks, Goto, flagVars, Statements
<1>4. CASE PassBlocks(w, t)
  BY <1>4, ReturnTypes DEF HookTypeOK, PassBlocks, flagVars
<1>5. CASE ArmTimer(w, t)
  BY <1>5 DEF HookTypeOK, ArmTimer, Goto, flagVars, Statements
<1>6. CASE TestSize(w, t)
  BY <1>6 DEF HookTypeOK, TestSize, Goto, flagVars, Statements
<1>7. CASE ResizeContexts(w, t)
  BY <1>7 DEF HookTypeOK, ResizeContexts, Goto, flagVars, Statements
<1>8. CASE Register(w, t)
  BY <1>8, Activities DEF HookTypeOK, Register, Goto, Does, flagVars, Statements
<1>9. CASE YieldToHold(w, t)
  BY <1>9, Activities DEF HookTypeOK, YieldToHold, Goto, Does, flagVars, Statements
<1>10. CASE Resume(w, t)
  BY <1>10, Activities DEF HookTypeOK, Resume, Goto, Does, flagVars, Statements
<1>11. CASE TimedOut(w, t)
  BY <1>11, ReturnTypes DEF HookTypeOK, TimedOut, flagVars
<1>12. CASE TryAgain(w, t)
  BY <1>12 DEF HookTypeOK, TryAgain, Goto, flagVars, Statements
<1>13. CASE CheckConnected(w, t)
  <2>1. untrue' \subseteq Waiters
    BY <1>13 DEF HookTypeOK, CheckConnected
  <2> QED
    BY <1>13, <2>1, ReturnTypes DEF HookTypeOK, CheckConnected, flagVars
<1>14. CASE Withdraw(w, t)
  BY <1>14 DEF HookTypeOK, Withdraw, Goto, flagVars, Statements
<1> QED
  BY <1>1, <1>2, <1>3, <1>4, <1>5, <1>6, <1>7, <1>8, <1>9, <1>10, <1>11, <1>12, <1>13,
     <1>14 DEF TaskStep

LEMMA TimerTypes ==
  ASSUME HookTypeOK, NEW w \in Workers, NEW t \in Waiters,
         TimerStep(w, t) \/ FlagStep(w, t), UNCHANGED <<cast, crew>>
  PROVE  HookTypeOK'
<1>1. CASE Expire(w, t)
  BY <1>1 DEF HookTypeOK, Expire, flagVars
<1>2. CASE RunTimeout(w, t)
  BY <1>2, Activities DEF HookTypeOK, RunTimeout, Does, flagVars
<1>3. CASE CancelWait(w, t)
  BY <1>3, Activities DEF HookTypeOK, CancelWait, Does, flagVars
<1>4. CASE EndSleep(w, t)
  BY <1>4 DEF HookTypeOK, EndSleep, flagVars
<1>5. ASSUME NEW nonblock \in BOOLEAN, Fcntl(w, t, nonblock) \/ Ioctl(w, t, nonblock)
      PROVE  HookTypeOK'
  <2>1. FlagCall(w, t) /\ Fd(t) \in Fds
    BY <1>5, PlanFacts DEF Fcntl, Ioctl
  <2>2. calls' \in [Waiters -> Nat]
    BY <2>1 DEF FlagCall, HookTypeOK
  <2>3. /\ userNonBlock' \subseteq Fds /\ blocking' \subseteq Fds /\ cleared' \subseteq Fds
    BY <1>5, <2>1 DEF HookTypeOK, Fcntl, Ioctl, Asked, KernelMode, Clears
  <2> QED
    BY <2>1, <2>2, <2>3 DEF HookTypeOK, FlagCall
<1> QED
  BY <1>1, <1>2, <1>3, <1>4, <1>5 DEF TimerStep, FlagStep

LEMMA IdleTypes ==
  ASSUME HookTypeOK, NEW w \in Workers, IdleStep(w), UNCHANGED <<cast, crew>>
  PROVE  HookTypeOK'
<1>1. CASE EpollWait(w)
  BY <1>1, Activities DEF HookTypeOK, EpollWait, Does, flagVars
<1>2. ASSUME NEW e \in fetched[w], HandleEvent(w, e)
      PROVE  HookTypeOK'
  BY <1>2, Activities DEF HookTypeOK, HandleEvent, Does, flagVars
<1> QED
  BY <1>1, <1>2 DEF IdleStep

LEMMA CloseTypes ==
  ASSUME HookTypeOK, NEW w \in Workers, NEW fd \in Fds, CloseStep(w, fd),
         UNCHANGED <<cast, crew>>
  PROVE  HookTypeOK'
<1>1. CASE Close(w, fd)
  BY <1>1, Activities DEF HookTypeOK, Close, Does, flagVars
<1>2. CASE ForgetCtx(w, fd)
  BY <1>2, Activities DEF HookTypeOK, ForgetCtx, Does
<1>3. CASE CloseFile(w, fd)
  BY <1>3, Activities DEF HookTypeOK, CloseFile, Does
<1>4. CASE Open(w, fd)
  BY <1>4 DEF HookTypeOK, Open
<1> QED
  BY <1>1, <1>2, <1>3, <1>4 DEF CloseStep

LEMMA KernelTypes ==
  ASSUME TypeOK, NEW fd \in Fds, NEW c \in Conditions, BecomesReady(fd, c),
         UNCHANGED hookVars, UNCHANGED <<cast, crew>>
  PROVE  TypeOK'
<1>1. IOTypeOK'
  BY DEF TypeOK, IOTypeOK, BecomesReady
<1>2. HookTypeOK'
  BY TypeParts DEF HookTypeOK, hookVars, flagVars
<1> QED
  BY <1>1, <1>2 DEF TypeOK, HookTypeOK

LEMMA BusyFacts ==
  ASSUME TypeOK
  PROVE  Busy \subseteq Fds /\ \A fd : Felt(fd) \subseteq Conditions
  BY PlanFacts DEF TypeOK, Busy, Felt, Conditions

LEMMA HookTypeStep == TypeOK /\ [Next]_vars => TypeOK'
<1> SUFFICES ASSUME TypeOK, [Next]_vars
             PROVE  TypeOK'
  OBVIOUS
<1>0. IOTypeOK /\ HookTypeOK /\ crew \subseteq Workers /\ cast \subseteq Waiters
  BY TypeParts DEF HookTypeOK
<1>1. CASE UNCHANGED vars
  <2>1. HookTypeOK'
    BY <1>0, <1>1 DEF HookTypeOK, vars, hookVars, flagVars
  <2>2. IOTypeOK'
    BY <1>0, <1>1 DEF IOTypeOK, vars, ioVars
  <2> QED
    BY <2>1, <2>2 DEF TypeOK, HookTypeOK
<1>2. ASSUME NEW w \in crew, NEW t \in cast, TaskStep(w, t), UNCHANGED <<cast, crew>>
      PROVE  TypeOK'
  BY <1>0, <1>2, TaskIOTypes, TaskTypes DEF TypeOK, HookTypeOK
<1>3. ASSUME NEW w \in crew, NEW t \in cast, TimerStep(w, t) \/ FlagStep(w, t),
             UNCHANGED <<cast, crew>>
      PROVE  TypeOK'
  BY <1>0, <1>3, OtherIOTypes, TimerTypes DEF TypeOK, HookTypeOK
<1>4. ASSUME NEW w \in crew, IdleStep(w), UNCHANGED <<cast, crew>>
      PROVE  TypeOK'
  BY <1>0, <1>4, OtherIOTypes, IdleTypes DEF TypeOK, HookTypeOK
<1>5. ASSUME NEW w \in crew, NEW fd \in Busy, CloseStep(w, fd), UNCHANGED <<cast, crew>>
      PROVE  TypeOK'
  <2>1. fd \in Fds /\ w \in Workers
    BY <1>0, BusyFacts
  <2> QED
    BY <1>0, <1>5, <2>1, OtherIOTypes, CloseTypes DEF TypeOK, HookTypeOK
<1>6. ASSUME Kernel, UNCHANGED <<cast, crew>>
      PROVE  TypeOK'
  BY <1>6, BusyFacts, KernelTypes DEF Kernel
<1> QED
  BY <1>1, <1>2, <1>3, <1>4, <1>5, <1>6 DEF Next, Step

-----------------------------------------------------------------------------
(***************************************************************************)
(* What a step does to the registrations and to epoll, whoever takes it.   *)
(***************************************************************************)
regVars == <<size, events, waiter, fetched, item, listed, level, opened, raced>>

Drains ==
    /\ UNCHANGED <<size, events, waiter, fetched, item, listed, opened, raced>>
    /\ \A fd \in Fds : level'[fd] \subseteq level[fd]
    /\ \E w \in crew, t \in cast : on[w] = Executing(t)

Grows ==
    /\ UNCHANGED <<events, waiter, fetched, item, listed, level, opened, raced>>
    /\ size <= size'

Adds ==
    \E t \in cast : /\ Plan[t].kind \notin {"sleep", "flags"}
                    /\ Added(t, Fd(t), Dir(t)) /\ UNCHANGED raced

Removes ==
    \E fd \in Fds, ds \in SUBSET Dirs, woken \in BOOLEAN :
        Removed(fd, ds, woken) /\ UNCHANGED raced

Fetches == \E w \in Workers : Idle(w) /\ Fetch(w) /\ UNCHANGED raced

Handles == \E w \in Workers : \E e \in fetched[w] : Handled(w, e) /\ UNCHANGED raced

Closed ==
    \E fd \in Fds : /\ KernelClose(fd) /\ raced \subseteq raced'
                    /\ item[fd] # {} => fd \in raced'
                    /\ \E w \in crew : on[w] = Forgetting(fd)

Opens == \E fd \in Fds : KernelOpen(fd) /\ UNCHANGED raced

Rises == \E fd \in Fds : \E c \in Conditions : BecomesReady(fd, c) /\ UNCHANGED raced

LEMMA RemoveEffect ==
  ASSUME TypeOK, NEW fd \in Fds, NEW ds \in SUBSET Dirs, NEW woken \in BOOLEAN,
         Remove(fd, ds, woken), UNCHANGED raced
  PROVE  UNCHANGED regVars \/ Removes
<1>1. IOTypeOK
  BY DEF TypeOK
<1>2. CASE UNCHANGED ioVars \/ End("bounds") \/ End("assert")
  BY <1>2 DEF regVars, ioVars, End
<1> QED
  BY <1>1, <1>2, RemoveCases DEF Removes

LEMMA TaskEffect ==
  ASSUME TypeOK, PcInv, NEW w \in crew, NEW t \in cast, TaskStep(w, t)
  PROVE  UNCHANGED regVars \/ Drains \/ Grows \/ Adds \/ Removes
<1>0. IOTypeOK /\ t \in Waiters /\ w \in Workers /\ Fd(t) \in Fds /\ Dir(t) \in Dirs
  BY PlanFacts DEF TypeOK
<1>1. CASE Aside(w, t)
  BY <1>1, AsideFacts DEF regVars, ioVars
<1>2. CASE TrySucceeds(w, t)
  BY <1>0, <1>2, LevelFacts DEF TrySucceeds, Drains, At
<1>3. CASE ResizeContexts(w, t)
  <2>1. Resize(Fd(t)) /\ UNCHANGED raced
    BY <1>3 DEF ResizeContexts
  <2> QED
    BY <1>0, <2>1, ResizeFacts DEF Grows
<1>4. CASE Register(w, t)
  <2>1. AddEvent(t, Fd(t), Dir(t)) /\ UNCHANGED raced
    BY <1>4 DEF Register
  <2>2. Plan[t].kind \notin {"sleep", "flags"}
    BY <1>0, <1>4 DEF Register, At, PcInv, PcPart
  <2>3. CASE End("bounds") \/ End("assert")
    BY <2>1, <2>3 DEF regVars, End
  <2> QED
    BY <1>0, <2>1, <2>2, <2>3, AddEventCases DEF Adds
<1>5. CASE Resume(w, t)
  BY <1>5 DEF Resume, regVars
<1>6. CASE Withdraw(w, t)
  BY <1>0, <1>6, RemoveEffect DEF Withdraw, DelEvent
<1> QED
  BY <1>1, <1>2, <1>3, <1>4, <1>5, <1>6 DEF TaskStep, Aside

LEMMA StepEffect ==
  ASSUME TypeOK, PcInv, Next
  PROVE  \/ UNCHANGED regVars \/ Drains \/ Grows \/ Adds \/ Removes \/ Fetches \/ Handles
         \/ Closed \/ Opens \/ Rises
<1>0. crew \subseteq Workers /\ cast \subseteq Waiters /\ Busy \subseteq Fds
  BY BusyFacts DEF TypeOK
<1>1. ASSUME NEW w \in crew, NEW t \in cast, TimerStep(w, t) \/ FlagStep(w, t)
      PROVE  UNCHANGED regVars \/ Removes
  <2>1. CASE Aside(w, t)
    BY <2>1, AsideFacts DEF regVars, ioVars
  <2>2. CASE CancelWait(w, t)
    BY <1>0, <2>2, PlanFacts, RemoveEffect DEF CancelWait, CancelEvent
  <2>3. CASE EndSleep(w, t)
    BY <2>3 DEF EndSleep, regVars
  <2> QED
    BY <1>1, <2>1, <2>2, <2>3 DEF TimerStep, Aside
<1>2. ASSUME NEW w \in crew, IdleStep(w)
      PROVE  UNCHANGED regVars \/ Fetches \/ Handles
  <2>1. CASE EpollWait(w)
    BY <1>0, <2>1 DEF EpollWait, Fetches
  <2>2. ASSUME NEW e \in fetched[w], HandleEvent(w, e)
        PROVE  UNCHANGED regVars \/ Handles
    <3>1. Handle(w, e) /\ UNCHANGED raced
      BY <2>2 DEF HandleEvent
    <3>2. CASE End("assert")
      BY <3>1, <3>2 DEF End, regVars
    <3> QED
      BY <1>0, <3>1, <3>2, HandleCases DEF Handles
  <2> QED
    BY <1>2, <2>1, <2>2 DEF IdleStep
<1>3. ASSUME NEW w \in crew, NEW fd \in Fds, CloseStep(w, fd)
      PROVE  UNCHANGED regVars \/ Removes \/ Closed \/ Opens
  <2>1. CASE Close(w, fd)
    BY <2>1, RemoveEffect DEF Close, CancelAllEvent
  <2>2. CASE ForgetCtx(w, fd)
    BY <2>2 DEF ForgetCtx, regVars, ioVars
  <2>3. CASE CloseFile(w, fd)
    BY <2>3 DEF CloseFile, Closed
  <2>4. CASE Open(w, fd)
    BY <2>4 DEF Open, Opens
  <2> QED
    BY <1>3, <2>1, <2>2, <2>3, <2>4 DEF CloseStep
<1>4. CASE Kernel
  <2>1. PICK fd \in Busy : \E c \in Felt(fd) : BecomesReady(fd, c) /\ UNCHANGED hookVars
    BY <1>4 DEF Kernel
  <2> QED
    BY <1>0, <2>1, BusyFacts DEF Rises, hookVars
<1> QED
  BY <1>0, <1>1, <1>2, <1>3, <1>4, TaskEffect DEF Next, Step

(***************************************************************************)
(* The epoll item agrees with FdContext::events.                           *)
(***************************************************************************)
LEMMA ItemStep == TypeOK /\ PcInv /\ ItemInv /\ [Next]_vars => ItemInv'
<1> SUFFICES ASSUME TypeOK, PcInv, ItemInv, [Next]_vars
             PROVE  ItemInv'
  OBVIOUS
<1>0. /\ IOTypeOK /\ size \in Nat
      /\ \A fd \in Fds : fd \in Nat /\ item[fd] \in SUBSET Dirs
  BY IOAssumption DEF TypeOK, IOTypeOK
<1>1. CASE UNCHANGED vars \/ UNCHANGED regVars
  BY <1>1 DEF ItemInv, vars, hookVars, ioVars, regVars
<1>2. CASE Drains
  BY <1>2 DEF ItemInv, Drains
<1>3. CASE Grows
  <2>1. size' \in Nat
    BY HookTypeStep DEF TypeOK, IOTypeOK
  <2> QED
    BY <1>0, <1>3, <2>1 DEF ItemInv, Grows
<1>4. CASE Adds
  <2>1. PICK t \in cast : Added(t, Fd(t), Dir(t)) /\ UNCHANGED raced
    BY <1>4 DEF Adds
  <2>2. t \in Waiters /\ Fd(t) \in Fds /\ Dir(t) \in Dirs
    BY PlanFacts DEF TypeOK
  <2>3. /\ Fd(t) < size /\ Fd(t) \in opened /\ UNCHANGED <<size, opened, raced>>
    BY <2>1 DEF Added, CtlFails
  <2> QED
    <3>1. /\ events'[Fd(t)] = events[Fd(t)] \cup {Dir(t)}
          /\ item'[Fd(t)] = events[Fd(t)] \cup {Dir(t)}
          /\ \A f \in Fds : f # Fd(t) => events'[f] = events[f] /\ item'[f] = item[f]
      BY <1>0, <2>1, <2>2, AddedFacts
    <3> QED
      BY <1>0, <2>3, <3>1 DEF ItemInv
<1>5. CASE Removes
  <2>1. PICK fd \in Fds, ds \in SUBSET Dirs, woken \in BOOLEAN :
           Removed(fd, ds, woken) /\ UNCHANGED raced
    BY <1>5 DEF Removes
  <2>2. fd < size /\ UNCHANGED <<size, opened, raced>>
    BY <2>1 DEF Removed
  <2> QED
    <3>1. /\ events'[fd] = events[fd] \ ds /\ item'[fd] = events[fd] \ ds
          /\ \A f \in Fds : f # fd => events'[f] = events[f] /\ item'[f] = item[f]
      BY <1>0, <2>1, RemovedFacts
    <3> QED
      BY <1>0, <2>1, <2>2, <3>1 DEF ItemInv
<1>6. CASE Fetches
  BY <1>0, <1>6, FetchFacts DEF ItemInv, Fetches
<1>7. CASE Handles
  <2>0. PICK w \in Workers : \E e \in fetched[w] : Handled(w, e) /\ UNCHANGED raced
    BY <1>7 DEF Handles
  <2>1. PICK e \in fetched[w] : Handled(w, e) /\ UNCHANGED raced
    BY <2>0
  <2>2. UNCHANGED <<size, opened, raced>>
    BY <2>1 DEF Handled
  <2>3. /\ e.fd \in Fds /\ events'[e.fd] = events[e.fd] \ RealEvent(e)
        /\ item[e.fd] = {} => item'[e.fd] = {}
        /\ item[e.fd] = {} \/ item'[e.fd] = events'[e.fd]
        /\ \A f \in Fds : f # e.fd => events'[f] = events[f] /\ item'[f] = item[f]
    <3>1. e.fd \in Fds /\ events'[e.fd] = events[e.fd] \ RealEvent(e)
      BY <1>0, <2>1, HandledFacts
    <3>2. item[e.fd] = {} => item'[e.fd] = {}
      BY <1>0, <2>1, HandledFacts
    <3>3. item[e.fd] = {} \/ item'[e.fd] = events'[e.fd]
      BY <1>0, <2>1, HandledItem
    <3>4. ASSUME NEW f \in Fds, f # e.fd
          PROVE  events'[f] = events[f] /\ item'[f] = item[f]
      BY <1>0, <2>1, <3>4, HandledOthers
    <3> QED
      BY <3>1, <3>2, <3>3, <3>4
  <2> QED
    BY <2>2, <2>3 DEF ItemInv
<1>8. CASE Closed
  <2>1. PICK fd \in Fds : /\ KernelClose(fd) /\ raced \subseteq raced'
                          /\ item[fd] # {} => fd \in raced'
    BY <1>8 DEF Closed
  <2>2. /\ \A f \in Fds : item'[f] = IF f = fd THEN {} ELSE item[f]
        /\ opened' = opened \ {fd} /\ UNCHANGED <<size, events>>
    BY <1>0, <2>1 DEF KernelClose, IOTypeOK
  <2> QED
    BY <2>1, <2>2 DEF ItemInv
<1>9. CASE Opens
  BY <1>9 DEF ItemInv, Opens, KernelOpen
<1>10. CASE Rises
  BY <1>10 DEF ItemInv, Rises, BecomesReady
<1> QED
  BY <1>1, <1>2, <1>3, <1>4, <1>5, <1>6, <1>7, <1>8, <1>9, <1>10, StepEffect

(***************************************************************************)
(* The waiters.                                                            *)
(***************************************************************************)
LEMMA WaiterStep == TypeOK /\ PcInv /\ WaiterInv /\ [Next]_vars => WaiterInv'
<1> SUFFICES ASSUME TypeOK, PcInv, WaiterInv, [Next]_vars
             PROVE  WaiterInv'
  OBVIOUS
<1>0. /\ IOTypeOK /\ cast' = cast
      /\ \A fd \in Fds : events[fd] \in SUBSET Dirs
  BY DEF TypeOK, IOTypeOK, Next, vars
<1>1. CASE UNCHANGED <<events, waiter>>
  BY <1>0, <1>1 DEF WaiterInv
<1>2. CASE Adds
  <2>1. PICK t \in cast : /\ Plan[t].kind \notin {"sleep", "flags"}
                          /\ Added(t, Fd(t), Dir(t))
    BY <1>2 DEF Adds
  <2>2. t \in Waiters /\ Fd(t) \in Fds /\ Dir(t) \in Dirs
    BY PlanFacts DEF TypeOK
  <2>3. \A fd \in Fds : \A d \in events'[fd] :
           \/ waiter'[fd][d] = t /\ fd = Fd(t) /\ d = Dir(t)
           \/ waiter'[fd][d] = waiter[fd][d] /\ d \in events[fd]
    <3>1. /\ events'[Fd(t)] = events[Fd(t)] \cup {Dir(t)} /\ waiter'[Fd(t)][Dir(t)] = t
          /\ \A f \in Fds : f # Fd(t) => events'[f] = events[f]
          /\ \A f \in Fds, c \in Dirs : f # Fd(t) \/ c # Dir(t) => waiter'[f][c] = waiter[f][c]
      BY <1>0, <2>1, <2>2, AddedFacts
    <3> QED
      BY <1>0, <2>2, <3>1
  <2> QED
    BY <1>0, <2>1, <2>3 DEF WaiterInv
<1>3. CASE Removes
  <2>1. PICK fd \in Fds, ds \in SUBSET Dirs, woken \in BOOLEAN : Removed(fd, ds, woken)
    BY <1>3 DEF Removes
  <2>2. \A f \in Fds : events'[f] \subseteq events[f]
                       /\ \A c \in events'[f] : waiter'[f][c] = waiter[f][c]
    BY <1>0, <2>1, RemovedFacts
  <2> QED
    BY <1>0, <2>2 DEF WaiterInv
<1>4. CASE Handles
  <2>0. PICK w \in Workers : \E e \in fetched[w] : Handled(w, e)
    BY <1>4 DEF Handles
  <2>1. PICK e \in fetched[w] : Handled(w, e)
    BY <2>0
  <2>2. waiter' = waiter /\ \A f \in Fds : events'[f] \subseteq events[f]
    BY <1>0, <2>1, HandledFacts DEF Handled
  <2> QED
    BY <1>0, <2>2 DEF WaiterInv
<1>5. UNCHANGED <<events, waiter>> \/ Adds \/ Removes \/ Handles
  <2>1. CASE UNCHANGED vars
    BY <2>1 DEF vars, ioVars
  <2>2. CASE Next
    BY <2>2, <1>0, StepEffect
       DEF regVars, Drains, Grows, Fetches, Fetch, Closed, KernelClose, Opens, KernelOpen,
           Rises, BecomesReady
  <2> QED
    BY <2>1, <2>2
<1> QED
  BY <1>1, <1>2, <1>3, <1>4, <1>5

-----------------------------------------------------------------------------
(***************************************************************************)
(* What a step does to the workers and to the statements reached.          *)
(***************************************************************************)
Elsewhere(w) == \A v \in Workers \ {w} : on'[v] = on[v]

\* A call or a callback begins, goes on or ends.
CallStep(w, t) ==
    /\ Elsewhere(w) /\ \A u \in Waiters \ {t} : pc'[u] = pc[u]
    /\ on[w] \in {Nothing, Executing(t)}
    /\ on'[w] = Executing(t) \/ (on'[w] = Nothing /\ pc'[t] \in {"idle", "wait"})

\* The worker does something else.
Switch(w, A) == UNCHANGED pc /\ Elsewhere(w) /\ on[w] \in A /\ on'[w] \in A

LEMMA TaskControl ==
  ASSUME TypeOK, NEW w \in Workers, NEW t \in Waiters, TaskStep(w, t)
  PROVE  CallStep(w, t)
<1>0. pc \in [Waiters -> Statements] /\ on \in [Workers -> Activity]
  BY DEF TypeOK
<1>1. ASSUME Idle(w) \/ on[w] = Executing(t), NEW s, Goto(t, s), Does(w, Executing(t))
      PROVE  CallStep(w, t)
  BY <1>0, <1>1 DEF CallStep, Elsewhere, Idle, Goto, Does
<1>2. ASSUME on[w] = Executing(t), NEW s, Goto(t, s), UNCHANGED on
      PROVE  CallStep(w, t)
  BY <1>0, <1>2 DEF CallStep, Elsewhere, Goto
<1>3. ASSUME Idle(w) \/ on[w] = Executing(t), NEW s \in {"idle", "wait"}, Goto(t, s),
             Does(w, Nothing)
      PROVE  CallStep(w, t)
  BY <1>0, <1>3 DEF CallStep, Elsewhere, Idle, Goto, Does
<1>4. ASSUME Idle(w), Goto(t, "idle"), UNCHANGED on
      PROVE  CallStep(w, t)
  BY <1>0, <1>4 DEF CallStep, Elsewhere, Idle, Goto
<1>5. CASE Start(w, t)
  BY <1>1, <1>5 DEF Start
<1>6. CASE TrySucceeds(w, t) \/ PassBlocks(w, t) \/ TimedOut(w, t) \/ CheckConnected(w, t)
  BY <1>3, <1>6 DEF TrySucceeds, PassBlocks, TimedOut, CheckConnected, Return, At
<1>7. CASE TryBlocks(w, t) \/ ArmTimer(w, t) \/ TestSize(w, t) \/ TryAgain(w, t)
  BY <1>2, <1>7 DEF TryBlocks, ArmTimer, TestSize, TryAgain, At
<1>8. CASE ResizeContexts(w, t)
  BY <1>2, <1>8 DEF ResizeContexts, At
<1>9. CASE Register(w, t)
  BY <1>2, <1>3, <1>9 DEF Register, At
<1>10. CASE YieldToHold(w, t)
  BY <1>3, <1>10 DEF YieldToHold, At
<1>11. CASE Resume(w, t)
  BY <1>1, <1>4, <1>11 DEF Resume
<1>12. CASE Withdraw(w, t)
  BY <1>4, <1>12 DEF Withdraw
<1> QED
  BY <1>5, <1>6, <1>7, <1>8, <1>9, <1>10, <1>11, <1>12 DEF TaskStep

LEMMA OtherControl ==
  ASSUME TypeOK, NEW w \in Workers
  PROVE  /\ \A t : TimerStep(w, t) \/ FlagStep(w, t) => Switch(w, {Nothing, TimingOut(t)})
         /\ IdleStep(w) => Switch(w, {Nothing, Handling})
         /\ \A fd : CloseStep(w, fd) => Switch(w, {Nothing, Closing(fd), Forgetting(fd)})
<1>0. on \in [Workers -> Activity]
  BY DEF TypeOK
<1>1. ASSUME NEW A, NEW a \in A, on[w] \in A, UNCHANGED pc, Does(w, a) \/ UNCHANGED on
      PROVE  Switch(w, A)
  BY <1>0, <1>1 DEF Switch, Elsewhere, Does
<1>2. ASSUME NEW t, TimerStep(w, t) \/ FlagStep(w, t)
      PROVE  Switch(w, {Nothing, TimingOut(t)})
  BY <1>1, <1>2 DEF TimerStep, FlagStep, Expire, RunTimeout, CancelWait, EndSleep, Fcntl,
     Ioctl, FlagCall, Idle
<1>3. ASSUME IdleStep(w)
      PROVE  Switch(w, {Nothing, Handling})
  <2>1. CASE EpollWait(w)
    BY <1>1, <2>1 DEF EpollWait, Idle
  <2>2. ASSUME NEW e, HandleEvent(w, e)
        PROVE  Switch(w, {Nothing, Handling})
    BY <1>1, <2>2 DEF HandleEvent
  <2> QED
    BY <1>3, <2>1, <2>2 DEF IdleStep
<1>4. ASSUME NEW fd, CloseStep(w, fd)
      PROVE  Switch(w, {Nothing, Closing(fd), Forgetting(fd)})
  BY <1>1, <1>4 DEF CloseStep, Close, ForgetCtx, CloseFile, Open, Idle
<1> QED
  BY <1>2, <1>3, <1>4

LEMMA ControlEffect ==
  ASSUME TypeOK, Next
  PROVE  \/ UNCHANGED <<pc, on>>
         \/ \E w \in crew :
               \/ \E t \in cast : CallStep(w, t) \/ Switch(w, {Nothing, TimingOut(t)})
               \/ Switch(w, {Nothing, Handling})
               \/ \E fd \in Fds : Switch(w, {Nothing, Closing(fd), Forgetting(fd)})
<1>0. crew \subseteq Workers /\ cast \subseteq Waiters /\ Busy \subseteq Fds
  BY BusyFacts DEF TypeOK
<1>1. Kernel => UNCHANGED <<pc, on>>
  BY DEF Kernel, hookVars
<1> QED
  BY <1>0, <1>1, TaskControl, OtherControl DEF Next, Step

(***************************************************************************)
(* The workers.                                                            *)
(***************************************************************************)
LEMMA FetchedStep ==
  ASSUME TypeOK, WorkerInv, NEW w \in Workers,
         fault' = "none", on'[w] # Handling, Next
  PROVE  fetched'[w] = {}
<1>0. /\ crew \subseteq Workers /\ cast \subseteq Waiters /\ Busy \subseteq Fds
      /\ IOTypeOK /\ on \in [Workers -> Activity] /\ Nothing # Handling
      /\ fault = "none"
      /\ on[w] # Handling => fetched[w] = {}
  BY BusyFacts, Activities DEF TypeOK, WorkerInv, Next
<1>1. ASSUME UNCHANGED fetched, on[w] # Handling
      PROVE  fetched'[w] = {}
  BY <1>0, <1>1
<1>2. ASSUME NEW v \in crew, NEW t \in cast, TaskStep(v, t)
      PROVE  fetched'[w] = {}
  <2>1. UNCHANGED fetched
    <3>1. CASE Aside(v, t)
      BY <3>1, AsideFacts DEF ioVars
    <3>2. CASE TrySucceeds(v, t) \/ Resume(v, t)
      BY <3>2 DEF TrySucceeds, Resume
    <3>3. CASE ResizeContexts(v, t)
      BY <3>3 DEF ResizeContexts, Resize, End
    <3>4. CASE Register(v, t)
      BY <3>4 DEF Register, AddEvent, End
    <3>5. CASE Withdraw(v, t)
      BY <3>5 DEF Withdraw, DelEvent, Remove, End, ioVars
    <3> QED
      BY <1>2, <3>1, <3>2, <3>3, <3>4, <3>5 DEF TaskStep, Aside
  <2>2. CallStep(v, t)
    BY <1>0, <1>2, TaskControl
  <2>3. on[w] # Handling
    BY <1>0, <2>2, Activities DEF CallStep, Elsewhere
  <2> QED
    BY <1>1, <2>1, <2>3
<1>3. ASSUME NEW v \in crew, NEW t \in cast, TimerStep(v, t) \/ FlagStep(v, t)
      PROVE  fetched'[w] = {}
  <2>1. UNCHANGED fetched
    <3>1. CASE Aside(v, t)
      BY <3>1, AsideFacts DEF ioVars
    <3>2. CASE CancelWait(v, t)
      BY <3>2 DEF CancelWait, CancelEvent, Remove, End, ioVars
    <3>3. CASE EndSleep(v, t)
      BY <3>3 DEF EndSleep
    <3> QED
      BY <1>3, <3>1, <3>2, <3>3 DEF TimerStep, Aside
  <2>2. Switch(v, {Nothing, TimingOut(t)})
    BY <1>0, <1>3, OtherControl
  <2>3. on[w] # Handling
    BY <1>0, <2>2, Activities DEF Switch, Elsewhere
  <2> QED
    BY <1>1, <2>1, <2>3
<1>4. ASSUME NEW v \in crew, EpollWait(v)
      PROVE  fetched'[w] = {}
  <2>1. Fetch(v) /\ on' = [on EXCEPT ![v] = Handling] /\ v \in Workers
    BY <1>0, <1>4 DEF EpollWait, Does
  <2>2. w # v /\ on[w] = on'[w]
    BY <1>0, <2>1
  <2> QED
    BY <1>0, <2>1, <2>2, FetchFacts
<1>5. ASSUME NEW v \in crew, NEW e \in fetched[v], HandleEvent(v, e)
      PROVE  fetched'[w] = {}
  <2>1. /\ Handle(v, e) /\ v \in Workers
        /\ on' = [on EXCEPT ![v] = IF fetched[v] = {e} THEN Nothing ELSE Handling]
    BY <1>0, <1>5 DEF HandleEvent, Does
  <2>2. Handled(v, e)
    BY <1>0, <2>1, HandleCases DEF End
  <2>3. \A u \in Workers : fetched'[u] = IF u = v THEN fetched[v] \ {e} ELSE fetched[u]
    BY <1>0, <2>1, <2>2 DEF Handled, IOTypeOK
  <2>4. CASE w = v
    BY <1>0, <2>1, <2>3, <2>4
  <2>5. CASE w # v
    BY <1>0, <2>1, <2>3, <2>5
  <2> QED
    BY <2>4, <2>5
<1>6. ASSUME NEW v \in crew, NEW fd \in Fds, CloseStep(v, fd)
      PROVE  fetched'[w] = {}
  <2>1. UNCHANGED fetched
    BY <1>6 DEF CloseStep, Close, CancelAllEvent, Remove, End, ioVars, ForgetCtx, CloseFile,
       KernelClose, Open, KernelOpen
  <2>2. Switch(v, {Nothing, Closing(fd), Forgetting(fd)})
    BY <1>0, <1>6, OtherControl
  <2>3. on[w] # Handling
    BY <1>0, <2>2, Activities DEF Switch, Elsewhere
  <2> QED
    BY <1>1, <2>1, <2>3
<1>7. CASE Kernel
  BY <1>1, <1>7 DEF Kernel, BecomesReady, hookVars
<1> QED
  BY <1>0, <1>2, <1>3, <1>4, <1>5, <1>6, <1>7 DEF Next, Step, IdleStep

LEMMA WorkerStep == TypeOK /\ WorkerInv /\ [Next]_vars => WorkerInv'
<1> SUFFICES ASSUME TypeOK, WorkerInv, [Next]_vars
             PROVE  WorkerInv'
  OBVIOUS
<1>0. /\ crew \subseteq Workers /\ cast \subseteq Waiters /\ UNCHANGED <<cast, crew>>
      /\ pc \in [Waiters -> Statements]
  BY DEF TypeOK, Next, vars
<1>1. CASE UNCHANGED vars
  BY <1>1 DEF WorkerInv, Runs, vars, hookVars, ioVars
<1>2. CASE Next
  <2>1. \A w \in Workers : fault' = "none" /\ on'[w] # Handling => fetched'[w] = {}
    BY <1>2, FetchedStep
  <2>2. CASE UNCHANGED <<pc, on>>
    BY <1>0, <2>1, <2>2 DEF WorkerInv, Runs
  <2>3. ASSUME NEW w \in crew, NEW t \in cast, CallStep(w, t)
        PROVE  WorkerInv'
    <3>1. ASSUME NEW u \in Waiters, Runs(u)'
          PROVE  \E v \in crew : on'[v] = Executing(u)
      <4>1. CASE u = t
        BY <1>0, <2>3, <3>1, <4>1 DEF CallStep, Runs
      <4>2. CASE u # t
        <5>1. PICK v \in crew : on[v] = Executing(u)
          BY <2>3, <3>1, <4>2 DEF CallStep, Runs, WorkerInv
        <5>2. v # w
          BY <2>3, <4>2, <5>1, Activities DEF CallStep
        <5> QED
          BY <1>0, <2>3, <5>1, <5>2 DEF CallStep, Elsewhere
      <4> QED
        BY <4>1, <4>2
    <3>2. \A v \in Workers \ crew : on'[v] = Nothing
      BY <2>3 DEF CallStep, Elsewhere, WorkerInv
    <3> QED
      BY <1>0, <2>1, <3>1, <3>2 DEF WorkerInv
  <2>4. ASSUME NEW w \in crew, NEW A, Switch(w, A), \A u : Executing(u) \notin A
        PROVE  WorkerInv'
    <3>1. ASSUME NEW u \in Waiters, Runs(u)'
          PROVE  \E v \in crew : on'[v] = Executing(u)
      <4>1. PICK v \in crew : on[v] = Executing(u)
        BY <2>4, <3>1 DEF Switch, Runs, WorkerInv
      <4> QED
        BY <1>0, <2>4, <4>1 DEF Switch, Elsewhere
    <3>2. \A v \in Workers \ crew : on'[v] = Nothing
      BY <2>4 DEF Switch, Elsewhere, WorkerInv
    <3> QED
      BY <1>0, <2>1, <3>1, <3>2 DEF WorkerInv
  <2>5. /\ \A t, u : Executing(u) \notin {Nothing, TimingOut(t)}
        /\ \A u : Executing(u) \notin {Nothing, Handling}
        /\ \A fd, u : Executing(u) \notin {Nothing, Closing(fd), Forgetting(fd)}
    BY Activities
  <2> QED
    BY <1>2, <2>2, <2>3, <2>4, <2>5, ControlEffect
<1> QED
  BY <1>1, <1>2

(***************************************************************************)
(* close() and the flags.                                                  *)
(***************************************************************************)
LEMMA SocketsKept ==
  ASSUME NEW w, NEW t, TaskStep(w, t) \/ TimerStep(w, t)
  PROVE  UNCHANGED <<opened, tracked, blocking, cleared, raced>>
<1>1. CASE \/ Start(w, t) \/ TryBlocks(w, t) \/ PassBlocks(w, t) \/ ArmTimer(w, t)
           \/ TestSize(w, t) \/ YieldToHold(w, t) \/ TimedOut(w, t) \/ TryAgain(w, t)
           \/ CheckConnected(w, t) \/ Expire(w, t) \/ RunTimeout(w, t)
  BY <1>1 DEF Start, TryBlocks, PassBlocks, ArmTimer, TestSize, YieldToHold, TimedOut,
     TryAgain, CheckConnected, Expire, RunTimeout, ioVars, flagVars
<1>2. CASE TrySucceeds(w, t) \/ Resume(w, t) \/ EndSleep(w, t)
  BY <1>2 DEF TrySucceeds, Resume, EndSleep, flagVars
<1>3. CASE ResizeContexts(w, t) \/ Register(w, t)
  BY <1>3 DEF ResizeContexts, Register, Resize, AddEvent, End, flagVars
<1>4. CASE Withdraw(w, t) \/ CancelWait(w, t)
  BY <1>4 DEF Withdraw, CancelWait, DelEvent, CancelEvent, Remove, End, ioVars, flagVars
<1> QED
  BY <1>1, <1>2, <1>3, <1>4 DEF TaskStep, TimerStep

LEMMA CloseStepInv == TypeOK /\ CloseInv /\ [Next]_vars => CloseInv'
<1> SUFFICES ASSUME TypeOK, CloseInv, [Next]_vars
             PROVE  CloseInv'
  OBVIOUS
<1>0. /\ crew \subseteq Workers /\ cast \subseteq Waiters /\ Busy \subseteq Fds
      /\ UNCHANGED <<cast, crew>> /\ on \in [Workers -> Activity]
      /\ \A t \in Waiters : Fd(t) \in Fds
      /\ opened \subseteq Fds /\ tracked \subseteq Fds
  BY BusyFacts, PlanFacts DEF TypeOK, IOTypeOK, Next, vars
<1>1. ASSUME UNCHANGED <<opened, tracked>>, blocking' \subseteq cleared',
             \A v \in Workers, fd \in Fds :
                /\ on'[v] = Closing(fd) <=> on[v] = Closing(fd)
                /\ on'[v] = Forgetting(fd) <=> on[v] = Forgetting(fd)
      PROVE  CloseInv'
  <2>1. \A v \in Workers, fd \in Fds : Closes(v, fd)' <=> Closes(v, fd)
    BY <1>1 DEF Closes
  <2>2. /\ \A fd \in Fds : \A v, w \in Workers : Closes(v, fd)' /\ Closes(w, fd)' => v = w
        /\ \A fd \in Fds, w \in Workers :
              /\ on'[w] = Closing(fd) => fd \in tracked'
              /\ on'[w] = Forgetting(fd) => fd \in opened' \ tracked'
        /\ tracked' \subseteq opened'
    BY <1>1, <2>1 DEF CloseInv
  <2>3. \A fd \in opened' : fd \in tracked' \/ \E w \in Workers : on'[w] = Forgetting(fd)
    BY <1>0, <1>1 DEF CloseInv, OpenSocketsTracked
  <2> QED
    BY <1>1, <2>2, <2>3 DEF CloseInv, OpenSocketsTracked
<1>2. CASE UNCHANGED vars
  BY <1>1, <1>2 DEF vars, hookVars, ioVars, flagVars, CloseInv, OpenSocketsTracked
<1>3. ASSUME NEW w \in crew, NEW t \in cast, TaskStep(w, t)
      PROVE  CloseInv'
  <2>1. CallStep(w, t) /\ UNCHANGED <<opened, tracked, blocking, cleared>>
    BY <1>0, <1>3, TaskControl, SocketsKept
  <2>2. \A v \in Workers, fd \in Fds :
           /\ on'[v] = Closing(fd) <=> on[v] = Closing(fd)
           /\ on'[v] = Forgetting(fd) <=> on[v] = Forgetting(fd)
    BY <2>1, Activities DEF CallStep, Elsewhere
  <2> QED
    BY <1>1, <2>1, <2>2 DEF CloseInv, OpenSocketsTracked
<1>4. ASSUME NEW w \in crew, NEW t \in cast, TimerStep(w, t) \/ FlagStep(w, t)
      PROVE  CloseInv'
  <2>1. Switch(w, {Nothing, TimingOut(t)})
    BY <1>0, <1>4, OtherControl
  <2>2. \A v \in Workers, fd \in Fds :
           /\ on'[v] = Closing(fd) <=> on[v] = Closing(fd)
           /\ on'[v] = Forgetting(fd) <=> on[v] = Forgetting(fd)
    BY <2>1, Activities DEF Switch, Elsewhere
  <2>3. CASE TimerStep(w, t)
    BY <1>1, <2>2, <2>3, SocketsKept DEF CloseInv, OpenSocketsTracked
  <2>4. ASSUME NEW nonblock \in BOOLEAN, Fcntl(w, t, nonblock) \/ Ioctl(w, t, nonblock)
        PROVE  CloseInv'
    <3>1. UNCHANGED <<opened, tracked>>
      BY <2>4 DEF Fcntl, Ioctl, FlagCall, ioVars
    <3>2. blocking' \subseteq cleared'
      BY <2>4 DEF Fcntl, Ioctl, KernelMode, Clears, CloseInv, OpenSocketsTracked
    <3> QED
      BY <1>1, <2>2, <3>1, <3>2
  <2> QED
    BY <1>4, <2>3, <2>4 DEF FlagStep
<1>5. ASSUME NEW w \in crew, IdleStep(w)
      PROVE  CloseInv'
  <2>1. Switch(w, {Nothing, Handling})
    BY <1>0, <1>5, OtherControl
  <2>2. \A v \in Workers, fd \in Fds :
           /\ on'[v] = Closing(fd) <=> on[v] = Closing(fd)
           /\ on'[v] = Forgetting(fd) <=> on[v] = Forgetting(fd)
    BY <2>1, Activities DEF Switch, Elsewhere
  <2>3. UNCHANGED <<opened, tracked, blocking, cleared>>
    BY <1>5 DEF IdleStep, EpollWait, HandleEvent, Fetch, Handle, End, flagVars
  <2> QED
    BY <1>1, <2>2, <2>3 DEF CloseInv, OpenSocketsTracked
<1>6. ASSUME NEW w \in crew, NEW fd \in Fds, Close(w, fd)
      PROVE  CloseInv'
  <2>1. /\ UNCHANGED <<opened, tracked, blocking, cleared>>
        /\ fd \in opened \cap tracked /\ on[w] = Nothing
        /\ \A v \in Workers : ~Closes(v, fd)
        /\ on' = [on EXCEPT ![w] = Closing(fd)]
    BY <1>6 DEF Close, CancelAllEvent, Remove, End, ioVars, flagVars, Closes, Idle, Does
  <2>2. \A v \in Workers, gd \in Fds :
           /\ on'[v] = Closing(gd) <=> on[v] = Closing(gd) \/ (v = w /\ gd = fd)
           /\ on'[v] = Forgetting(gd) <=> on[v] = Forgetting(gd)
    BY <1>0, <2>1, Activities
  <2>3. \A v \in Workers, gd \in Fds : Closes(v, gd)' <=> Closes(v, gd) \/ (v = w /\ gd = fd)
    BY <2>2 DEF Closes
  <2>4. \A gd \in Fds : \A v, u \in Workers : Closes(v, gd)' /\ Closes(u, gd)' => v = u
    BY <2>1, <2>3 DEF CloseInv
  <2> QED
    BY <1>0, <2>1, <2>2, <2>4 DEF CloseInv, OpenSocketsTracked
<1>7. ASSUME NEW w \in crew, NEW fd \in Fds, ForgetCtx(w, fd)
      PROVE  CloseInv'
  <2>1. /\ UNCHANGED <<opened, blocking, cleared>> /\ tracked' = tracked \ {fd}
        /\ on[w] = Closing(fd) /\ fd \in tracked /\ fd \in opened
        /\ on' = [on EXCEPT ![w] = Forgetting(fd)]
    BY <1>0, <1>7 DEF ForgetCtx, ioVars, Does, CloseInv
  <2>2. \A v \in Workers, gd \in Fds :
           /\ on'[v] = Closing(gd) <=> on[v] = Closing(gd) /\ v # w
           /\ on'[v] = Forgetting(gd) <=> on[v] = Forgetting(gd) \/ (v = w /\ gd = fd)
    BY <1>0, <2>1, Activities
  <2>3. \A v \in Workers, gd \in Fds : Closes(v, gd)' => Closes(v, gd)
    BY <2>1, <2>2 DEF Closes
  <2>4. \A v \in Workers \ {w} : ~Closes(v, fd)
    BY <1>0, <2>1 DEF CloseInv, Closes
  <2>5. \A v \in Workers : on'[v] # Closing(fd)
    BY <2>2, <2>4 DEF Closes
  <2>6. \A gd \in Fds : \A v, u \in Workers : Closes(v, gd)' /\ Closes(u, gd)' => v = u
    BY <2>3 DEF CloseInv
  <2>7. \A gd \in Fds, v \in Workers :
              /\ on'[v] = Closing(gd) => gd \in tracked'
              /\ on'[v] = Forgetting(gd) => gd \in opened' \ tracked'
    BY <2>1, <2>2, <2>5 DEF CloseInv
  <2>8. \A gd \in opened' : gd \in tracked' \/ \E v \in Workers : on'[v] = Forgetting(gd)
    BY <1>0, <2>1, <2>2 DEF CloseInv, OpenSocketsTracked
  <2> QED
    BY <2>1, <2>6, <2>7, <2>8 DEF CloseInv, OpenSocketsTracked
<1>8. ASSUME NEW w \in crew, NEW fd \in Fds, CloseFile(w, fd)
      PROVE  CloseInv'
  <2>1. /\ opened' = opened \ {fd} /\ UNCHANGED tracked
        /\ blocking' = blocking \ {fd} /\ cleared' = cleared \ {fd}
        /\ on[w] = Forgetting(fd) /\ fd \in opened \ tracked
        /\ on' = [on EXCEPT ![w] = Nothing]
    BY <1>0, <1>8 DEF CloseFile, KernelClose, Does, CloseInv
  <2>2. \A v \in Workers, gd \in Fds :
           /\ on'[v] = Closing(gd) <=> on[v] = Closing(gd) /\ v # w
           /\ on'[v] = Forgetting(gd) <=> on[v] = Forgetting(gd) /\ v # w
    BY <1>0, <2>1, Activities
  <2>3. \A v \in Workers, gd \in Fds : Closes(v, gd)' => Closes(v, gd)
    BY <2>2 DEF Closes
  <2>4. \A v \in Workers \ {w} : ~Closes(v, fd)
    BY <1>0, <2>1 DEF CloseInv, Closes
  <2>5. \A v \in Workers : on'[v] # Forgetting(fd)
    BY <2>2, <2>4 DEF Closes
  <2>6. \A gd \in Fds : \A v, u \in Workers : Closes(v, gd)' /\ Closes(u, gd)' => v = u
    BY <2>3 DEF CloseInv
  <2>7. \A gd \in Fds, v \in Workers :
              /\ on'[v] = Closing(gd) => gd \in tracked'
              /\ on'[v] = Forgetting(gd) => gd \in opened' \ tracked'
    BY <2>1, <2>2, <2>5 DEF CloseInv
  <2>8. \A gd \in opened' : gd \in tracked' \/ \E v \in Workers : on'[v] = Forgetting(gd)
    <3>1. ASSUME NEW gd \in opened'
          PROVE  gd \in tracked' \/ \E v \in Workers : on'[v] = Forgetting(gd)
      <4>1. gd \in opened /\ gd # fd /\ gd \in Fds
        BY <1>0, <2>1
      <4>2. CASE gd \in tracked
        BY <2>1, <4>2
      <4>3. CASE gd \notin tracked
        <5>1. PICK v \in Workers : on[v] = Forgetting(gd)
          BY <4>1, <4>3 DEF CloseInv, OpenSocketsTracked
        <5>2. v # w
          BY <2>1, <4>1, <5>1, Activities
        <5> QED
          BY <2>2, <4>1, <5>1, <5>2
      <4> QED
        BY <4>2, <4>3
    <3> QED
      BY <3>1
  <2>9. blocking' \subseteq cleared' /\ tracked' \subseteq opened'
    BY <2>1 DEF CloseInv, OpenSocketsTracked
  <2> QED
    BY <2>6, <2>7, <2>8, <2>9 DEF CloseInv, OpenSocketsTracked
<1>9. ASSUME NEW w \in crew, NEW fd \in Fds, Open(w, fd)
      PROVE  CloseInv'
  <2>1. /\ fd \notin opened /\ opened' = opened \cup {fd} /\ tracked' = tracked \cup {fd}
        /\ blocking' = IF fd \in tracked THEN blocking \cup {fd} ELSE blocking
        /\ UNCHANGED <<on, cleared>>
    BY <1>9 DEF Open, KernelOpen
  <2>2. fd \notin tracked
    BY <2>1 DEF CloseInv
  <2>3. \A v \in Workers : on[v] # Forgetting(fd)
    BY <2>1 DEF CloseInv
  <2>4. \A v \in Workers, gd \in Fds : Closes(v, gd)' <=> Closes(v, gd)
    BY <2>1 DEF Closes
  <2>5. \A gd \in Fds : \A v, u \in Workers : Closes(v, gd)' /\ Closes(u, gd)' => v = u
    BY <2>4 DEF CloseInv
  <2> QED
    BY <2>1, <2>2, <2>3, <2>5 DEF CloseInv, OpenSocketsTracked
<1>10. CASE Kernel
  BY <1>1, <1>10 DEF Kernel, BecomesReady, hookVars, flagVars, CloseInv, OpenSocketsTracked
<1> QED
  BY <1>0, <1>2, <1>3, <1>4, <1>5, <1>6, <1>7, <1>8, <1>9, <1>10 DEF Next, Step, CloseStep

(***************************************************************************)
(* One worker: nobody else moves while a call is on it.                    *)
(***************************************************************************)
LEMMA OneWorker ==
  ASSUME TypeOK, Alone
  PROVE  \A v, w \in crew : v = w
<1>1. IsFiniteSet(crew)
  BY IOAssumption, FS_Subset DEF TypeOK
<1>2. PICK w : crew = {w}
  BY <1>1, FS_Singleton DEF Alone
<1> QED
  BY <1>2

LEMMA OneBusy ==
  ASSUME TypeOK, WorkerInv, Alone, NEW w \in crew
  PROVE  /\ \A v \in Workers \ {w} : on[v] = Nothing
         /\ \A t \in Waiters : Runs(t) => on[w] = Executing(t)
  BY OneWorker DEF WorkerInv

(***************************************************************************)
(* The statements.                                                         *)
(***************************************************************************)
(* A step that leaves the vector and the sockets alone moves one waiter.   *)
LEMMA PcOwn ==
  ASSUME TypeOK, CloseInv, PcInv, NEW w \in Workers, NEW t \in Waiters, TaskStep(w, t),
         UNCHANGED crew
  PROVE  PcPart(t)'
<1>0. /\ pc \in [Waiters -> Statements] /\ size \in Nat /\ Fd(t) \in Nat /\ Fd(t) \in Fds
      /\ PcPart(t) /\ UNCHANGED <<opened, raced, tracked>> /\ tracked \subseteq opened
      /\ Plan[t].kind \in {"io", "connect", "callback", "sleep", "flags"}
      /\ Alone' <=> Alone
  BY PlanFacts, IOAssumption, SocketsKept DEF TypeOK, IOTypeOK, CloseInv, PcInv, Alone
<1>1. ASSUME Goto(t, "idle")
      PROVE  PcPart(t)'
  BY <1>0, <1>1 DEF PcPart, Goto
<1>2. CASE Start(w, t)
  <2>1. /\ Fd(t) \in tracked /\ Plan[t].kind # "flags"
        /\ pc'[t] = CASE Plan[t].kind = "callback" -> "add"
                      [] Plan[t].kind = "sleep" -> "arm"
                      [] Plan[t].kind = "io" /\ Fd(t) \in userNonBlock -> "pass"
                      [] OTHER -> "try"
    BY <1>0, <1>2 DEF Start, Goto
  <2> QED
    BY <1>0, <2>1 DEF PcPart
<1>3. CASE TrySucceeds(w, t) \/ PassBlocks(w, t) \/ TimedOut(w, t) \/ CheckConnected(w, t)
  BY <1>1, <1>3 DEF TrySucceeds, PassBlocks, TimedOut, CheckConnected, Return
<1>4. CASE TryBlocks(w, t)
  <2>1. pc[t] = "try" /\ Fd(t) \in opened /\ pc'[t] \in {"arm", "add"}
    BY <1>0, <1>4 DEF TryBlocks, At, Goto
  <2>2. Plan[t].kind \notin {"callback", "sleep", "flags"}
    BY <1>0, <2>1 DEF PcPart
  <2> QED
    BY <1>0, <2>1, <2>2 DEF PcPart
<1>5. CASE ArmTimer(w, t)
  <2>1. pc[t] = "arm" /\ pc'[t] = IF Plan[t].kind = "sleep" THEN "yield" ELSE "add"
    BY <1>0, <1>5 DEF ArmTimer, At, Goto
  <2> QED
    BY <1>0, <2>1 DEF PcPart
<1>6. CASE TestSize(w, t)
  <2>1. /\ pc[t] = "add" /\ size' = size
        /\ pc'[t] = IF size <= Fd(t) THEN "resize" ELSE "lookup"
    BY <1>0, <1>6 DEF TestSize, At, Goto, TooSmall, ioVars
  <2> QED
    BY <1>0, <2>1 DEF PcPart
<1>7. CASE ResizeContexts(w, t)
  <2>1. pc[t] = "resize" /\ pc'[t] = "lookup" /\ Resize(Fd(t)) /\ IOTypeOK
    BY <1>0, <1>7 DEF ResizeContexts, At, Goto, TypeOK
  <2>2. Fd(t) <= size'
    <3>1. /\ size' \in Nat /\ NewSize(Fd(t)) >= Fd(t)
          /\ (size' = size /\ NewSize(Fd(t)) < size) \/ size' = NewSize(Fd(t))
      BY <1>0, <2>1, ResizeFacts
    <3>2. NewSize(Fd(t)) \in Nat
      BY <1>0 DEF NewSize
    <3> QED
      BY <1>0, <3>1, <3>2
  <2> QED
    BY <1>0, <2>1, <2>2 DEF PcPart
<1>8. CASE Register(w, t)
  <2>1. /\ pc[t] = "lookup"
        /\ pc'[t] = IF Plan[t].kind = "callback" THEN "wait" ELSE "yield"
    BY <1>0, <1>8 DEF Register, At, Goto
  <2> QED
    BY <1>0, <2>1 DEF PcPart
<1>9. CASE YieldToHold(w, t)
  <2>1. pc[t] = "yield" /\ pc'[t] = "wait"
    BY <1>0, <1>9 DEF YieldToHold, At, Goto
  <2> QED
    BY <1>0, <2>1 DEF PcPart
<1>10. CASE Resume(w, t)
  <2>1. /\ pc[t] = "wait"
        /\ pc'[t] = IF Plan[t].kind \in {"callback", "sleep"} THEN "idle" ELSE "woken"
    BY <1>0, <1>10 DEF Resume, Goto
  <2> QED
    BY <1>0, <2>1 DEF PcPart
<1>11. CASE TryAgain(w, t)
  <2>1. /\ pc[t] = "woken" /\ pc'[t] = IF Plan[t].kind = "connect" THEN "check" ELSE "try"
    BY <1>0, <1>11 DEF TryAgain, At, Goto
  <2> QED
    BY <1>0, <2>1 DEF PcPart
<1>12. CASE Withdraw(w, t)
  BY <1>1, <1>12 DEF Withdraw
<1> QED
  BY <1>2, <1>3, <1>4, <1>5, <1>6, <1>7, <1>8, <1>9, <1>10, <1>11, <1>12 DEF TaskStep

LEMMA PcStep == TypeOK /\ WorkerInv /\ CloseInv /\ PcInv /\ [Next]_vars => PcInv'
<1> SUFFICES ASSUME TypeOK, WorkerInv, CloseInv, PcInv, [Next]_vars
             PROVE  PcInv'
  OBVIOUS
<1>0. /\ crew \subseteq Workers /\ cast \subseteq Waiters /\ Busy \subseteq Fds
      /\ UNCHANGED <<cast, crew>> /\ (Alone' <=> Alone)
      /\ \A t \in Waiters : Fd(t) \in Nat /\ Fd(t) \in Fds /\ PcPart(t)
      /\ size \in Nat /\ size' \in Nat
  BY BusyFacts, PlanFacts, IOAssumption, HookTypeStep
     DEF TypeOK, IOTypeOK, PcInv, Next, vars, Alone
<1>1. ASSUME NEW u \in Waiters, pc'[u] = pc[u], UNCHANGED <<size, opened>>,
             raced \subseteq raced'
      PROVE  PcPart(u)'
  BY <1>0, <1>1 DEF PcPart
<1>2. CASE UNCHANGED vars
  BY <1>1, <1>2 DEF PcInv, vars, ioVars, hookVars
<1>3. ASSUME NEW w \in crew, NEW t \in cast, TaskStep(w, t)
      PROVE  PcInv'
  <2>1. PcPart(t)'
    BY <1>0, <1>3, PcOwn
  <2>2. ASSUME NEW u \in Waiters, u # t
        PROVE  PcPart(u)'
    <3>1. /\ pc'[u] = pc[u] /\ UNCHANGED <<opened, raced>>
          /\ on[w] \in {Nothing, Executing(t)}
      BY <1>0, <1>3, <2>2, TaskControl, SocketsKept DEF CallStep
    <3>2. CASE size' = size
      BY <1>1, <3>1, <3>2
    <3>3. CASE ResizeContexts(w, t)
      <4>1. Resize(Fd(t)) /\ IOTypeOK
        BY <3>3 DEF ResizeContexts, TypeOK
      <4>2. size <= size'
        BY <1>0, <4>1, ResizeFacts
      <4>3. Alone => pc[u] # "resize"
        BY <2>2, <3>1, OneBusy, Activities DEF Runs
      <4> QED
        BY <1>0, <3>1, <4>2, <4>3 DEF PcPart
    <3>4. size' = size \/ ResizeContexts(w, t)
      <4>1. CASE Aside(w, t)
        BY <4>1, AsideFacts DEF ioVars
      <4>2. CASE TrySucceeds(w, t) \/ Resume(w, t)
        BY <4>2 DEF TrySucceeds, Resume
      <4>3. CASE Register(w, t)
        BY <4>3 DEF Register, AddEvent, End
      <4>4. CASE Withdraw(w, t)
        BY <4>4 DEF Withdraw, DelEvent, Remove, End, ioVars
      <4> QED
        BY <1>3, <4>1, <4>2, <4>3, <4>4 DEF TaskStep, Aside
    <3> QED
      BY <3>2, <3>3, <3>4
  <2> QED
    BY <2>1, <2>2 DEF PcInv
<1>4. ASSUME NEW w \in crew, NEW t \in cast, TimerStep(w, t) \/ FlagStep(w, t)
      PROVE  PcInv'
  <2>1. UNCHANGED <<pc, size, opened, raced>>
    <3>1. CASE Aside(w, t)
      BY <1>0, <1>4, <3>1, AsideFacts, OtherControl DEF Switch, ioVars
    <3>2. CASE CancelWait(w, t) \/ EndSleep(w, t)
      BY <3>2 DEF CancelWait, CancelEvent, Remove, End, ioVars, EndSleep
    <3> QED
      BY <1>4, <3>1, <3>2 DEF TimerStep, Aside
  <2> QED
    BY <1>1, <2>1 DEF PcInv
<1>5. ASSUME NEW w \in crew, IdleStep(w)
      PROVE  PcInv'
  <2>1. UNCHANGED <<pc, size, opened, raced>>
    BY <1>5 DEF IdleStep, EpollWait, HandleEvent, Fetch, Handle, End
  <2> QED
    BY <1>1, <2>1 DEF PcInv
<1>6. ASSUME NEW w \in crew, NEW fd \in Fds, CloseStep(w, fd)
      PROVE  PcInv'
  <2>1. CASE Close(w, fd) \/ ForgetCtx(w, fd)
    <3>1. UNCHANGED <<pc, size, opened, raced>>
      BY <2>1 DEF Close, CancelAllEvent, Remove, End, ioVars, ForgetCtx
    <3> QED
      BY <1>1, <3>1 DEF PcInv
  <2>2. CASE CloseFile(w, fd)
    <3>1. /\ UNCHANGED <<pc, size>> /\ opened' = opened \ {fd} /\ raced \subseteq raced'
          /\ InUse(fd) => fd \in raced'
      BY <2>2 DEF CloseFile, KernelClose
    <3>2. ASSUME NEW u \in Waiters
          PROVE  PcPart(u)'
      BY <1>0, <3>1, <3>2 DEF PcPart, InUse
    <3> QED
      BY <3>2 DEF PcInv
  <2>3. CASE Open(w, fd)
    <3>1. UNCHANGED <<pc, size, raced>> /\ opened \subseteq opened'
      BY <2>3 DEF Open, KernelOpen
    <3>2. ASSUME NEW u \in Waiters
          PROVE  PcPart(u)'
      BY <1>0, <3>1 DEF PcPart
    <3> QED
      BY <3>2 DEF PcInv
  <2> QED
    BY <1>6, <2>1, <2>2, <2>3 DEF CloseStep
<1>7. CASE Kernel
  BY <1>1, <1>7 DEF PcInv, Kernel, BecomesReady, hookVars
<1> QED
  BY <1>0, <1>2, <1>3, <1>4, <1>5, <1>6, <1>7 DEF Next, Step

-----------------------------------------------------------------------------
(***************************************************************************)
(* What the operations come to where the invariant holds.                  *)
(***************************************************************************)
LEMMA WaiterThere ==
  ASSUME TypeOK, WaiterInv, NEW fd \in Fds, NEW ds \in SUBSET events[fd]
  PROVE  ~TriggerAsserts(fd, ds)
  BY IOAssumption DEF TypeOK, WaiterInv, TriggerAsserts

LEMMA RemoveOutcome ==
  ASSUME TypeOK, ItemInv, WaiterInv, NEW fd \in Fds, NEW ds \in SUBSET Dirs,
         NEW woken \in BOOLEAN, Remove(fd, ds, woken)
  PROVE  \/ UNCHANGED ioVars /\ events[fd] \cap ds = {}
         \/ End("bounds") /\ fd = size /\ events[fd] = {} /\ item[fd] = {}
         \/ End("assert") /\ fd \in raced
         \/ Removed(fd, ds, woken)
<1>0. IOTypeOK /\ fd \in Nat /\ size \in Nat /\ events[fd] \in SUBSET Dirs
  BY IOAssumption DEF TypeOK, IOTypeOK
<1>1. CASE UNCHANGED ioVars /\ (size < fd \/ events[fd] \cap ds = {})
  BY <1>0, <1>1 DEF ItemInv
<1>2. CASE End("bounds") /\ size = fd
  BY <1>0, <1>2 DEF ItemInv
<1>3. CASE /\ End("assert") /\ events[fd] \cap ds # {} /\ fd < size
           /\ CtlFails(fd, events[fd]) \/ TriggerAsserts(fd, events[fd] \cap ds)
  <2>1. ~TriggerAsserts(fd, events[fd] \cap ds)
    BY WaiterThere
  <2> QED
    BY <1>3, <2>1 DEF CtlFails, ItemInv
<1> QED
  BY <1>0, <1>1, <1>2, <1>3, RemoveCases

LEMMA AddOutcome ==
  ASSUME TypeOK, ItemInv, PcInv, NEW w, NEW t \in cast, Register(w, t)
  PROVE  \/ /\ End("bounds")
            /\ Fd(t) = size /\ events[Fd(t)] = {} /\ item[Fd(t)] = {}
         \/ End("assert") /\ Fd(t) \in raced
         \/ Added(t, Fd(t), Dir(t))
<1>0. /\ IOTypeOK /\ t \in Waiters /\ Fd(t) \in Nat /\ Fd(t) \in Fds /\ size \in Nat
  BY IOAssumption, PlanFacts DEF TypeOK, IOTypeOK
<1>1. /\ AddEvent(t, Fd(t), Dir(t)) /\ PcPart(t) /\ pc[t] = "lookup"
  BY <1>0 DEF Register, At, PcInv
<1>2. /\ Fd(t) <= size /\ Fd(t) \in opened \cup raced
  BY <1>1 DEF PcPart
<1>3. CASE End("bounds") /\ Fd(t) >= size
  BY <1>0, <1>2, <1>3 DEF ItemInv
<1>4. CASE End("assert") /\ Fd(t) < size /\ CtlFails(Fd(t), events[Fd(t)])
  BY <1>0, <1>2, <1>4 DEF CtlFails, ItemInv
<1> QED
  BY <1>0, <1>1, <1>3, <1>4, AddEventCases

LEMMA HandleOutcome ==
  ASSUME TypeOK, WaiterInv, NEW w \in Workers, NEW e \in fetched[w], Handle(w, e)
  PROVE  Handled(w, e)
<1>1. e.fd \in Fds /\ RealEvent(e) \in SUBSET events[e.fd]
  BY DEF TypeOK, IOTypeOK, RealEvent
<1> QED
  BY <1>1, WaiterThere, HandleCases

(***************************************************************************)
(* How a behaviour comes to its end.                                       *)
(***************************************************************************)
Ended ==
    \/ /\ End("bounds")
       /\ \E fd \in Fds : fd = size /\ events[fd] = {} /\ item[fd] = {}
    \/ fault' = "assert" /\ raced # {} /\ raced' = raced
    \/ fault' = "shrunk" /\ ~Alone

LEMMA EndStep ==
  ASSUME TypeOK, ItemInv, WaiterInv, WorkerInv, PcInv, Next
  PROVE  fault' = "none" \/ Ended
<1>0. /\ crew \subseteq Workers /\ cast \subseteq Waiters /\ Busy \subseteq Fds
      /\ fault = "none" /\ IOTypeOK
      /\ \A t \in Waiters : Fd(t) \in Fds /\ Fd(t) \in Nat /\ Dir(t) \in Dirs
  BY BusyFacts, PlanFacts, IOAssumption DEF TypeOK, Next
<1>1. ASSUME NEW fd \in Fds, NEW ds \in SUBSET Dirs, NEW woken \in BOOLEAN,
             Remove(fd, ds, woken), UNCHANGED raced
      PROVE  fault' = "none" \/ Ended
  <2>1. CASE UNCHANGED ioVars
    BY <1>0, <2>1 DEF ioVars
  <2>2. CASE End("bounds") /\ fd = size /\ events[fd] = {} /\ item[fd] = {}
    BY <2>2 DEF Ended
  <2>3. CASE End("assert") /\ fd \in raced
    BY <1>1, <2>3 DEF Ended, End
  <2>4. CASE Removed(fd, ds, woken)
    BY <1>0, <2>4 DEF Removed
  <2> QED
    BY <1>1, <2>1, <2>2, <2>3, <2>4, RemoveOutcome
<1>2. ASSUME NEW w \in crew, NEW t \in cast, TaskStep(w, t)
      PROVE  fault' = "none" \/ Ended
  <2>1. CASE Aside(w, t)
    BY <1>0, <2>1, AsideFacts DEF ioVars
  <2>2. CASE TrySucceeds(w, t) \/ Resume(w, t)
    BY <1>0, <2>2 DEF TrySucceeds, Resume
  <2>3. CASE ResizeContexts(w, t)
    <3>1. Resize(Fd(t)) /\ pc[t] = "resize" /\ PcPart(t)
      BY <1>0, <2>3 DEF ResizeContexts, At, PcInv
    <3>2. CASE fault' = fault
      BY <1>0, <3>2
    <3>3. CASE fault' = "shrunk" /\ NewSize(Fd(t)) < size
      <4>1. /\ NewSize(Fd(t)) \in Nat /\ NewSize(Fd(t)) >= Fd(t)
            /\ size \in Nat /\ Fd(t) \in Nat
        BY <1>0 DEF NewSize, IOTypeOK
      <4>2. ~Alone
        BY <3>1, <3>3, <4>1 DEF PcPart
      <4> QED
        BY <3>3, <4>2 DEF Ended
    <3> QED
      BY <1>0, <3>1, <3>2, <3>3, ResizeFacts
  <2>4. CASE Register(w, t)
    <3>1. CASE End("bounds") /\ Fd(t) = size /\ events[Fd(t)] = {} /\ item[Fd(t)] = {}
      BY <1>0, <3>1 DEF Ended
    <3>2. CASE End("assert") /\ Fd(t) \in raced
      BY <2>4, <3>2 DEF Ended, End, Register
    <3>3. CASE Added(t, Fd(t), Dir(t))
      BY <1>0, <3>3 DEF Added
    <3> QED
      BY <2>4, <3>1, <3>2, <3>3, AddOutcome
  <2>5. CASE Withdraw(w, t)
    BY <1>0, <1>1, <2>5 DEF Withdraw, DelEvent
  <2> QED
    BY <1>2, <2>1, <2>2, <2>3, <2>4, <2>5 DEF TaskStep, Aside
<1>3. ASSUME NEW w \in crew, NEW t \in cast, TimerStep(w, t) \/ FlagStep(w, t)
      PROVE  fault' = "none" \/ Ended
  <2>1. CASE Aside(w, t)
    BY <1>0, <2>1, AsideFacts DEF ioVars
  <2>2. CASE CancelWait(w, t)
    BY <1>0, <1>1, <2>2 DEF CancelWait, CancelEvent
  <2>3. CASE EndSleep(w, t)
    BY <1>0, <2>3 DEF EndSleep
  <2> QED
    BY <1>3, <2>1, <2>2, <2>3 DEF TimerStep, Aside
<1>4. ASSUME NEW w \in crew, IdleStep(w)
      PROVE  fault' = "none" \/ Ended
  <2>1. CASE EpollWait(w)
    BY <1>0, <2>1 DEF EpollWait, Fetch
  <2>2. ASSUME NEW e \in fetched[w], HandleEvent(w, e)
        PROVE  fault' = "none" \/ Ended
    <3>1. Handled(w, e)
      BY <1>0, <2>2, HandleOutcome DEF HandleEvent
    <3> QED
      BY <1>0, <3>1 DEF Handled
  <2> QED
    BY <1>4, <2>1, <2>2 DEF IdleStep
<1>5. ASSUME NEW w \in crew, NEW fd \in Fds, CloseStep(w, fd)
      PROVE  fault' = "none" \/ Ended
  <2>1. CASE Close(w, fd)
    BY <1>1, <2>1 DEF Close, CancelAllEvent
  <2>2. CASE ForgetCtx(w, fd) \/ CloseFile(w, fd) \/ Open(w, fd)
    BY <1>0, <2>2 DEF ForgetCtx, CloseFile, Open, KernelClose, KernelOpen, ioVars
  <2> QED
    BY <1>5, <2>1, <2>2 DEF CloseStep
<1>6. CASE Kernel
  BY <1>0, <1>6 DEF Kernel, BecomesReady
<1> QED
  BY <1>0, <1>2, <1>3, <1>4, <1>5, <1>6 DEF Next, Step

LEMMA AssertionStep ==
  TypeOK /\ ItemInv /\ WaiterInv /\ WorkerInv /\ PcInv /\ AssertionsHold /\ [Next]_vars
     => AssertionsHold'
<1> SUFFICES ASSUME TypeOK, ItemInv, WaiterInv, WorkerInv, PcInv, AssertionsHold,
                    [Next]_vars
             PROVE  AssertionsHold'
  OBVIOUS
<1>1. \A fd \in Fds : events'[fd] # {} => fd < size'
  BY ItemStep DEF ItemInv
<1>2. CASE UNCHANGED vars
  BY <1>2 DEF AssertionsHold, Alone, vars, ioVars, hookVars
<1>3. CASE Next
  <2>1. UNCHANGED crew
    BY <1>3 DEF Next
  <2>2. CASE fault' = "none"
    BY <1>1, <2>2 DEF AssertionsHold
  <2>3. CASE Ended
    BY <1>1, <2>1, <2>3 DEF AssertionsHold, Ended, End, Alone
  <2> QED
    BY <1>3, <2>2, <2>3, EndStep
<1> QED
  BY <1>2, <1>3

(***************************************************************************)
(* Edges are not missed.                                                   *)
(***************************************************************************)
Noted(fd, d) ==
    \/ fd \in listed
    \/ \E w \in Workers : \E e \in fetched[w] : e.fd = fd /\ e.on \cap {d, "HUP"} # {}

LEMMA MissedStep ==
  TypeOK /\ ItemInv /\ WorkerInv /\ PcInv /\ NoEventMissed /\ [Next]_vars => NoEventMissed'
<1> SUFFICES ASSUME TypeOK, ItemInv, WorkerInv, PcInv, NoEventMissed, [Next]_vars
             PROVE  NoEventMissed'
  OBVIOUS
<1>0. /\ IOTypeOK /\ (Next => fault = "none") /\ opened \subseteq Fds
      /\ \A fd \in Fds : item[fd] \in SUBSET Dirs /\ events[fd] \in SUBSET Dirs
      /\ \A d \in Dirs : d # "HUP"
      /\ \A fd \in Fds \ raced : item[fd] = events[fd] /\ (fd \notin opened => events[fd] = {})
  BY DEF TypeOK, IOTypeOK, Next, Dirs, ItemInv
<1>1. SUFFICES ASSUME NEW fd \in opened' \ raced', NEW d \in Dirs,
                      d \in events'[fd], level'[fd] \cap {d, "HUP"} # {}
               PROVE  Noted(fd, d)'
  BY DEF NoEventMissed, Noted
<1>2. fd \in Fds
  BY HookTypeStep DEF TypeOK, IOTypeOK
<1>3. ASSUME fd \in opened \ raced, d \in events[fd], level[fd] \cap {d, "HUP"} # {}
      PROVE  Noted(fd, d)
  BY <1>3 DEF NoEventMissed, Noted
<1>4. CASE UNCHANGED vars \/ UNCHANGED regVars \/ Drains \/ Grows
  BY <1>1, <1>2, <1>3, <1>4 DEF vars, ioVars, hookVars, regVars, Drains, Grows, Noted
<1>5. CASE Adds
  <2>1. PICK t \in cast : Added(t, Fd(t), Dir(t)) /\ UNCHANGED raced
    BY <1>5 DEF Adds
  <2>2. t \in Waiters /\ Fd(t) \in Fds /\ Dir(t) \in Dirs
    BY PlanFacts DEF TypeOK
  <2>3. /\ Watch(Fd(t), events[Fd(t)] \cup {Dir(t)})
        /\ events[Fd(t)] \cup {Dir(t)} \in SUBSET Dirs
        /\ UNCHANGED <<level, opened, fetched>>
    BY <1>0, <2>1, <2>2 DEF Added
  <2>4. CASE fd = Fd(t)
    <3>1. events'[fd] = events[fd] \cup {Dir(t)}
      BY <1>0, <2>1, <2>2, <2>4, AddedFacts
    <3>2. fd \in listed'
      BY <1>0, <1>1, <2>2, <2>3, <2>4, <3>1, WatchFacts
    <3> QED
      BY <3>2 DEF Noted
  <2>5. CASE fd # Fd(t)
    <3>1. events'[fd] = events[fd]
      BY <1>0, <1>2, <2>1, <2>2, <2>5, AddedFacts
    <3>2. fd \in listed' <=> fd \in listed
      BY <1>0, <1>2, <2>2, <2>3, <2>5, WatchFacts
    <3> QED
      BY <1>1, <1>3, <2>1, <2>3, <3>1, <3>2 DEF Noted
  <2> QED
    BY <2>4, <2>5
<1>6. CASE Removes
  <2>1. PICK f \in Fds, ds \in SUBSET Dirs, woken \in BOOLEAN :
           Removed(f, ds, woken) /\ UNCHANGED raced
    BY <1>6 DEF Removes
  <2>2. /\ Watch(f, events[f] \ ds) /\ events[f] \ ds \in SUBSET Dirs
        /\ UNCHANGED <<level, opened, fetched>>
    BY <1>0, <2>1 DEF Removed
  <2>3. CASE fd = f
    <3>1. events'[fd] = events[fd] \ ds
      BY <1>0, <2>1, <2>3, RemovedFacts
    <3>2. fd \in listed'
      BY <1>0, <1>1, <2>2, <2>3, <3>1, WatchFacts
    <3> QED
      BY <3>2 DEF Noted
  <2>4. CASE fd # f
    <3>1. events'[fd] = events[fd]
      BY <1>0, <1>2, <2>1, <2>4, RemovedFacts
    <3>2. fd \in listed' <=> fd \in listed
      BY <1>0, <1>2, <2>2, <2>4, WatchFacts
    <3> QED
      BY <1>1, <1>3, <2>1, <2>2, <3>1, <3>2 DEF Noted
  <2> QED
    BY <2>3, <2>4
<1>7. CASE Fetches /\ Next
  <2>1. PICK w \in Workers : Idle(w) /\ Fetch(w) /\ UNCHANGED raced
    BY <1>7 DEF Fetches
  <2>2. UNCHANGED <<events, level, opened>> /\ fetched[w] = {}
    BY <1>0, <1>7, <2>1, Activities DEF Fetch, Idle, WorkerInv
  <2>3. CASE fd \in listed
    <3>1. Reported(fd, item[fd]) \cap {d, "HUP"} # {}
      BY <1>0, <1>1, <1>2, <2>1, <2>2 DEF Reported
    <3>2. fd \in ToFetch
      BY <2>3, <3>1 DEF ToFetch
    <3>3. [fd |-> fd, on |-> Reported(fd, item[fd])] \in fetched'[w]
      BY <1>0, <2>1, <3>2, FetchFacts
    <3> QED
      BY <3>1, <3>3 DEF Noted
  <2>4. CASE fd \notin listed
    <3>1. PICK v \in Workers : \E e \in fetched[v] : e.fd = fd /\ e.on \cap {d, "HUP"} # {}
      BY <1>1, <1>3, <2>1, <2>2, <2>4 DEF Noted
    <3>2. v # w
      BY <2>2, <3>1
    <3>3. fetched'[v] = fetched[v]
      BY <1>0, <2>1, <3>2, FetchFacts
    <3> QED
      BY <3>1, <3>3 DEF Noted
  <2> QED
    BY <2>3, <2>4
<1>8. CASE Handles
  <2>0. PICK w \in Workers : \E e \in fetched[w] : Handled(w, e) /\ UNCHANGED raced
    BY <1>8 DEF Handles
  <2>1. PICK e \in fetched[w] : Handled(w, e) /\ UNCHANGED raced
    BY <2>0
  <2>2. UNCHANGED <<level, opened>>
    BY <2>1 DEF Handled
  <2>3. CASE fd = e.fd
    <3>1. /\ RealEvent(e) \subseteq events[fd] /\ events'[fd] = events[fd] \ RealEvent(e)
      BY <1>0, <1>2, <2>1, <2>3 DEF Handled, RealEvent, IOTypeOK
    <3>2. item[fd] # {}
      BY <1>0, <1>1, <1>2, <2>1, <3>1
    <3>3. /\ Watch(fd, LeftEvent(e)) /\ LeftEvent(e) \in SUBSET Dirs /\ d \in LeftEvent(e)
      BY <1>0, <1>1, <1>2, <2>1, <2>3, <3>1, <3>2 DEF Handled, LeftEvent
    <3>4. fd \in listed'
      BY <1>0, <1>1, <1>2, <2>2, <3>3, WatchFacts
    <3> QED
      BY <3>4 DEF Noted
  <2>4. CASE fd # e.fd
    <3>1. events'[fd] = events[fd]
      BY <1>0, <1>2, <2>1, <2>4, HandledOthers
    <3>2. fd \in listed' <=> fd \in listed
      <4>1. CASE item[e.fd] = {}
        BY <2>1, <4>1 DEF Handled
      <4>2. CASE item[e.fd] # {}
        BY <2>1, <2>4, <4>2 DEF Handled, Watch
      <4> QED
        BY <4>1, <4>2
    <3>3. \A v \in Workers : \A g \in fetched[v] : g.fd = fd => g \in fetched'[v]
      BY <1>0, <2>1, <2>4 DEF Handled, IOTypeOK
    <3> QED
      BY <1>1, <1>3, <2>1, <2>2, <3>1, <3>2, <3>3 DEF Noted
  <2> QED
    BY <2>3, <2>4
<1>9. CASE Closed
  <2>1. PICK f \in Fds : KernelClose(f) /\ raced \subseteq raced'
    BY <1>9 DEF Closed
  <2>2. fd # f /\ level'[fd] = level[fd]
    BY <1>0, <1>1, <1>2, <2>1 DEF KernelClose, IOTypeOK
  <2> QED
    BY <1>1, <1>3, <2>1, <2>2 DEF KernelClose, Noted
<1>10. CASE Opens
  BY <1>0, <1>1, <1>2, <1>3, <1>10 DEF Opens, KernelOpen, Noted
<1>11. CASE Rises
  <2>1. PICK f \in Fds, c \in Conditions : BecomesReady(f, c) /\ UNCHANGED raced
    BY <1>11 DEF Rises
  <2>2. /\ UNCHANGED <<events, opened, fetched>> /\ listed \subseteq listed'
        /\ f # fd => level'[fd] = level[fd]
        /\ f = fd => level'[fd] = level[fd] \cup {c}
    BY <1>0, <1>2, <2>1 DEF BecomesReady, IOTypeOK
  <2>3. CASE level[fd] \cap {d, "HUP"} # {}
    BY <1>1, <1>3, <2>1, <2>2, <2>3 DEF Noted
  <2>4. CASE level[fd] \cap {d, "HUP"} = {}
    <3>1. f = fd /\ c \in {d, "HUP"}
      BY <1>1, <2>2, <2>4
    <3>2. item[fd] = events[fd] /\ d \in item[fd]
      BY <1>0, <1>1, <1>2, <2>1, <2>2
    <3>3. fd \in listed'
      BY <2>1, <3>1, <3>2 DEF BecomesReady
    <3> QED
      BY <3>3 DEF Noted
  <2> QED
    BY <2>3, <2>4
<1> QED
  BY <1>4, <1>5, <1>6, <1>7, <1>8, <1>9, <1>10, <1>11, StepEffect

-----------------------------------------------------------------------------
(***************************************************************************)
(* Wake-ups.                                                               *)
(***************************************************************************)
\* Nothing happens to the wake-up of u, or its registration becomes an entry of m_fibers.
WakeEffect(u) ==
    \/ (Registered(u)' <=> Registered(u)) /\ queued'[u] = queued[u]
    \/ Registered(u) /\ ~Registered(u)' /\ queued'[u] = queued[u] + 1

LEMMA WakeKept ==
  ASSUME NEW u, UNCHANGED <<events, waiter, queued>>
  PROVE  WakeEffect(u)
  BY DEF WakeEffect, Registered

LEMMA TriggeredCount ==
  ASSUME TypeOK, WaiterInv, NEW fd \in Fds, NEW ds \in SUBSET events[fd], NEW u \in Waiters
  PROVE  /\ Fd(u) = fd /\ Dir(u) \in ds /\ Registered(u)
               => Triggered(fd, ds)[u] = queued[u] + 1
         /\ ~(Fd(u) = fd /\ Dir(u) \in ds /\ Registered(u))
               => Triggered(fd, ds)[u] = queued[u]
<1>0. IOTypeOK /\ ds \in SUBSET Dirs
  BY DEF TypeOK, IOTypeOK
<1>1. \A d \in ds : waiter[fd][d] = u => Fd(u) = fd /\ Dir(u) = d /\ Registered(u)
  BY DEF WaiterInv, Registered
<1>2. /\ (\A d \in ds : waiter[fd][d] # u) => Triggered(fd, ds)[u] = queued[u]
      /\ \A c \in ds : waiter[fd][c] = u /\ (\A d \in ds : waiter[fd][d] = u => d = c)
                          => Triggered(fd, ds)[u] = queued[u] + 1
  BY <1>0, TriggeredFacts
<1>3. Fd(u) = fd /\ Dir(u) \in ds /\ Registered(u) => waiter[fd][Dir(u)] = u
  BY DEF Registered
<1> QED
  BY <1>1, <1>2, <1>3

LEMMA RemovedWakes ==
  ASSUME TypeOK, WaiterInv, NEW fd \in Fds, NEW ds \in SUBSET Dirs, NEW woken \in BOOLEAN,
         Removed(fd, ds, woken), NEW u \in Waiters
  PROVE  \/ (Registered(u)' <=> Registered(u)) /\ queued'[u] = queued[u]
         \/ /\ Registered(u) /\ ~Registered(u)' /\ Fd(u) = fd /\ Dir(u) \in ds
            /\ queued'[u] = IF woken THEN queued[u] + 1 ELSE queued[u]
<1>0. /\ IOTypeOK /\ Fd(u) \in Fds /\ Dir(u) \in Dirs
      /\ events[fd] \cap ds \in SUBSET events[fd]
  BY PlanFacts DEF TypeOK
<1>1. events'[fd] = events[fd] \ ds
  BY <1>0, RemovedFacts
<1>2. \A f \in Fds : f # fd => events'[f] = events[f]
  BY <1>0, RemovedFacts
<1>3. \A f \in Fds : \A c \in events'[f] : waiter'[f][c] = waiter[f][c]
  BY <1>0, RemovedFacts
<1>4. queued' = IF woken THEN Triggered(fd, events[fd] \cap ds) ELSE queued
  BY DEF Removed
<1>5. CASE Fd(u) = fd /\ Dir(u) \in ds /\ Registered(u)
  <2>1. ~Registered(u)'
    BY <1>1, <1>5 DEF Registered, Fd, Dir
  <2>2. Dir(u) \in events[fd] \cap ds
    BY <1>5 DEF Registered
  <2>3. Triggered(fd, events[fd] \cap ds)[u] = queued[u] + 1
    BY <1>0, <1>5, <2>2, TriggeredCount
  <2> QED
    BY <1>4, <1>5, <2>1, <2>3
<1>6. CASE ~(Fd(u) = fd /\ Dir(u) \in ds /\ Registered(u))
  <2>1. Triggered(fd, events[fd] \cap ds)[u] = queued[u]
    BY <1>0, <1>6, TriggeredCount
  <2>2. Dir(u) \in events'[Fd(u)] <=> Dir(u) \in events[Fd(u)] /\ ~(Fd(u) = fd /\ Dir(u) \in ds)
    BY <1>0, <1>1, <1>2
  <2>3. Registered(u)' <=> Dir(u) \in events'[Fd(u)] /\ waiter'[Fd(u)][Dir(u)] = u
    BY DEF Registered, Fd, Dir
  <2>4. Registered(u)' <=> Registered(u)
    BY <1>0, <1>3, <1>6, <2>2, <2>3 DEF Registered
  <2> QED
    BY <1>4, <2>1, <2>4
<1> QED
  BY <1>5, <1>6

LEMMA RemoveWake ==
  ASSUME TypeOK, ItemInv, WaiterInv, NEW fd \in Fds, NEW ds \in SUBSET Dirs,
         Remove(fd, ds, TRUE), NEW u \in Waiters
  PROVE  WakeEffect(u)
<1>1. CASE UNCHANGED ioVars \/ End("bounds") \/ End("assert")
  BY <1>1, WakeKept DEF ioVars, End
<1>2. CASE Removed(fd, ds, TRUE)
  BY <1>2, RemovedWakes DEF WakeEffect
<1> QED
  BY <1>1, <1>2, RemoveOutcome

LEMMA HandledWakes ==
  ASSUME TypeOK, WaiterInv, NEW w \in Workers, NEW e \in fetched[w], Handled(w, e),
         NEW u \in Waiters
  PROVE  \/ (Registered(u)' <=> Registered(u)) /\ queued'[u] = queued[u]
         \/ /\ Registered(u) /\ ~Registered(u)' /\ Fd(u) = e.fd /\ Dir(u) \in RealEvent(e)
            /\ queued'[u] = queued[u] + 1
<1>0. /\ IOTypeOK /\ Fd(u) \in Fds /\ Dir(u) \in Dirs /\ e.fd \in Fds
      /\ RealEvent(e) \in SUBSET events[e.fd]
      /\ waiter' = waiter /\ queued' = Triggered(e.fd, RealEvent(e))
  BY PlanFacts DEF TypeOK, IOTypeOK, RealEvent, Handled
<1>1. events'[e.fd] = events[e.fd] \ RealEvent(e)
  BY <1>0, HandledFacts
<1>2. Fd(u) # e.fd => events'[Fd(u)] = events[Fd(u)]
  BY <1>0, HandledOthers
<1>3. Registered(u)' <=> Dir(u) \in events'[Fd(u)] /\ waiter'[Fd(u)][Dir(u)] = u
  BY DEF Registered, Fd, Dir
<1>4. CASE Fd(u) = e.fd /\ Dir(u) \in RealEvent(e) /\ Registered(u)
  <2>1. Triggered(e.fd, RealEvent(e))[u] = queued[u] + 1
    BY <1>0, <1>4, TriggeredCount
  <2> QED
    BY <1>0, <1>1, <1>3, <1>4, <2>1
<1>5. CASE ~(Fd(u) = e.fd /\ Dir(u) \in RealEvent(e) /\ Registered(u))
  <2>1. Triggered(e.fd, RealEvent(e))[u] = queued[u]
    BY <1>0, <1>5, TriggeredCount
  <2>2. Registered(u)' <=> Registered(u)
    BY <1>0, <1>1, <1>2, <1>3, <1>5 DEF Registered
  <2> QED
    BY <1>0, <2>1, <2>2
<1> QED
  BY <1>4, <1>5

LEMMA AddedWakes ==
  ASSUME TypeOK, WaiterInv, NEW t \in cast, Plan[t].kind \notin {"sleep", "flags"},
         Added(t, Fd(t), Dir(t)), NEW u \in Waiters
  PROVE  /\ queued' = queued /\ Registered(t)'
         /\ u # t /\ ~Shared(u) => (Registered(u)' <=> Registered(u))
<1>0. /\ IOTypeOK /\ t \in Waiters
      /\ Fd(t) \in Fds /\ Dir(t) \in Dirs /\ Fd(u) \in Fds /\ Dir(u) \in Dirs
  BY PlanFacts DEF TypeOK
<1>1. /\ events'[Fd(t)] = events[Fd(t)] \cup {Dir(t)} /\ waiter'[Fd(t)][Dir(t)] = t
      /\ \A f \in Fds : f # Fd(t) => events'[f] = events[f]
      /\ \A f \in Fds, c \in Dirs : f # Fd(t) \/ c # Dir(t) => waiter'[f][c] = waiter[f][c]
  BY <1>0, AddedFacts
<1>2. \A v \in Waiters :
         Registered(v)' <=> Dir(v) \in events'[Fd(v)] /\ waiter'[Fd(v)][Dir(v)] = v
  BY DEF Registered, Fd, Dir
<1>3. queued' = queued /\ Registered(t)'
  BY <1>0, <1>1, <1>2 DEF Added
<1>4. ASSUME u # t, ~Shared(u)
      PROVE  Registered(u)' <=> Registered(u)
  <2>1. CASE Fd(u) = Fd(t) /\ Dir(u) = Dir(t)
    <3>1. Plan[u].kind = "sleep"
      BY <1>4, <2>1 DEF Shared
    <3>2. ~Registered(u)
      BY <1>0, <3>1 DEF Registered, WaiterInv
    <3> QED
      BY <1>0, <1>1, <1>2, <1>4, <2>1, <3>2
  <2>2. CASE Fd(u) # Fd(t) \/ Dir(u) # Dir(t)
    <3>1. waiter'[Fd(u)][Dir(u)] = waiter[Fd(u)][Dir(u)]
      BY <1>0, <1>1, <2>2
    <3>2. Dir(u) \in events'[Fd(u)] <=> Dir(u) \in events[Fd(u)]
      BY <1>0, <1>1, <2>2
    <3> QED
      BY <1>2, <3>1, <3>2 DEF Registered
  <2> QED
    BY <2>1, <2>2
<1> QED
  BY <1>3, <1>4

(* The steps of others, but for the end of a sleep.                        *)
LEMMA OthersWake ==
  ASSUME TypeOK, ItemInv, WaiterInv, PcInv, NEW w \in crew, NEW u \in Waiters, ~Shared(u)
  PROVE  /\ \A t \in cast \ {u} : TaskStep(w, t) => WakeEffect(u)
         /\ \A t \in cast : FlagStep(w, t) => WakeEffect(u)
         /\ \A t \in cast : TimerStep(w, t) => WakeEffect(u) \/ (t = u /\ EndSleep(w, u))
         /\ IdleStep(w) => WakeEffect(u)
         /\ \A fd \in Fds : CloseStep(w, fd) => WakeEffect(u)
<1>0. /\ crew \subseteq Workers /\ cast \subseteq Waiters /\ w \in Workers
      /\ \A t \in Waiters : Fd(t) \in Fds /\ Dir(t) \in Dirs
      /\ queued \in [Waiters -> Nat]
  BY PlanFacts DEF TypeOK, IOTypeOK
<1>1. ASSUME NEW t, Aside(w, t)
      PROVE  WakeEffect(u)
  BY <1>1, AsideFacts, WakeKept DEF ioVars
<1>2. ASSUME NEW t \in cast, t # u, TaskStep(w, t)
      PROVE  WakeEffect(u)
  <2>1. CASE TrySucceeds(w, t)
    BY <2>1, WakeKept DEF TrySucceeds
  <2>2. CASE ResizeContexts(w, t)
    BY <2>2, WakeKept DEF ResizeContexts, Resize, End
  <2>3. CASE Register(w, t)
    <3>1. Plan[t].kind \notin {"sleep", "flags"}
      BY <1>0, <2>3 DEF Register, At, PcInv, PcPart
    <3>2. CASE End("bounds") \/ End("assert")
      BY <3>2, WakeKept DEF End
    <3>3. CASE Added(t, Fd(t), Dir(t))
      BY <1>2, <3>1, <3>3, AddedWakes DEF WakeEffect
    <3> QED
      BY <2>3, <3>2, <3>3, AddOutcome
  <2>4. CASE Resume(w, t)
    BY <1>0, <1>2, <2>4 DEF Resume, WakeEffect, Registered
  <2>5. CASE Withdraw(w, t)
    <3>1. Remove(Fd(t), {Dir(t)}, FALSE) /\ Plan[t].kind = "callback" /\ t \in Waiters
      BY <1>0, <2>5 DEF Withdraw, DelEvent
    <3>2. CASE UNCHANGED ioVars \/ End("bounds") \/ End("assert")
      BY <3>2, WakeKept DEF ioVars, End
    <3>3. CASE Removed(Fd(t), {Dir(t)}, FALSE)
      <4>1. CASE (Registered(u)' <=> Registered(u)) /\ queued'[u] = queued[u]
        BY <4>1 DEF WakeEffect
      <4>2. CASE Registered(u) /\ Fd(u) = Fd(t) /\ Dir(u) \in {Dir(t)}
        <5>1. Plan[u].kind # "sleep"
          BY <1>0, <4>2 DEF Registered, WaiterInv
        <5>2. Shared(u)
          BY <1>2, <3>1, <4>2, <5>1 DEF Shared
        <5> QED
          BY <5>2
      <4>3. Fd(t) \in Fds /\ {Dir(t)} \in SUBSET Dirs
        BY <1>0, <3>1
      <4> QED
        BY <3>3, <4>1, <4>2, <4>3, RemovedWakes
    <3> QED
      BY <1>0, <3>1, <3>2, <3>3, RemoveOutcome
  <2> QED
    BY <1>1, <1>2, <2>1, <2>2, <2>3, <2>4, <2>5 DEF TaskStep, Aside
<1>3. ASSUME NEW t \in cast, TimerStep(w, t)
      PROVE  WakeEffect(u) \/ (t = u /\ EndSleep(w, u))
  <2>1. CASE CancelWait(w, t)
    BY <1>0, <2>1, RemoveWake, ZenonT(60) DEF CancelWait, CancelEvent
  <2>2. CASE EndSleep(w, t) /\ t # u
    BY <1>0, <2>2 DEF EndSleep, WakeEffect, Registered
  <2> QED
    BY <1>1, <1>3, <2>1, <2>2 DEF TimerStep, Aside
<1>4. CASE IdleStep(w)
  <2>1. CASE EpollWait(w)
    BY <2>1, WakeKept DEF EpollWait, Fetch
  <2>2. ASSUME NEW e \in fetched[w], HandleEvent(w, e)
        PROVE  WakeEffect(u)
    <3>1. Handled(w, e)
      BY <1>0, <2>2, HandleOutcome DEF HandleEvent
    <3> QED
      BY <1>0, <3>1, HandledWakes DEF WakeEffect
  <2> QED
    BY <1>4, <2>1, <2>2 DEF IdleStep
<1>5. ASSUME NEW fd \in Fds, CloseStep(w, fd)
      PROVE  WakeEffect(u)
  <2>1. CASE Close(w, fd)
    BY <2>1, RemoveWake DEF Close, CancelAllEvent
  <2>2. CASE ForgetCtx(w, fd) \/ CloseFile(w, fd) \/ Open(w, fd)
    BY <2>2, WakeKept DEF ForgetCtx, CloseFile, Open, KernelClose, KernelOpen, ioVars
  <2> QED
    BY <1>5, <2>1, <2>2 DEF CloseStep
<1> QED
  BY <1>1, <1>2, <1>3, <1>4, <1>5 DEF Aside

(* Of the timers and histories of u, the steps of others leave all alone.  *)
LEMMA OthersTimers ==
  ASSUME TypeOK, NEW w, NEW t, NEW u \in Waiters, u # t,
         TaskStep(w, t) \/ TimerStep(w, t)
  PROVE  /\ (u \in armed' <=> u \in armed) /\ (u \in due' <=> u \in due)
         /\ (u \in cancelled' <=> u \in cancelled) /\ (u \in early' <=> u \in early)
         /\ (u \in pulled' <=> u \in pulled) /\ (u \in untrue' <=> u \in untrue)
         /\ pc'[u] = pc[u]
<1>0. pc \in [Waiters -> Statements]
  BY DEF TypeOK
<1> QED
  BY <1>0 DEF TaskStep, TimerStep, Start, TrySucceeds, TryBlocks, PassBlocks, ArmTimer,
     TestSize, ResizeContexts, Register, YieldToHold, Resume, TimedOut, TryAgain,
     CheckConnected, Withdraw, Expire, RunTimeout, CancelWait, EndSleep, Return, Goto

LEMMA TimersKept ==
  ASSUME NEW w
  PROVE  /\ \A t : FlagStep(w, t) => UNCHANGED <<pc, armed, due, cancelled, early, pulled, untrue>>
         /\ IdleStep(w) => UNCHANGED <<pc, armed, due, cancelled, early, pulled, untrue>>
         /\ \A fd : CloseStep(w, fd) => /\ UNCHANGED <<pc, armed, due, cancelled, early, untrue>>
                                        /\ pulled \subseteq pulled'
<1>1. \A t : FlagStep(w, t) => UNCHANGED <<pc, armed, due, cancelled, early, pulled, untrue>>
  BY DEF FlagStep, Fcntl, Ioctl, FlagCall
<1>2. IdleStep(w) => UNCHANGED <<pc, armed, due, cancelled, early, pulled, untrue>>
  BY DEF IdleStep, EpollWait, HandleEvent
<1>3. \A fd : CloseStep(w, fd) => /\ UNCHANGED <<pc, armed, due, cancelled, early, untrue>>
                                  /\ pulled \subseteq pulled'
  BY DEF CloseStep, Close, ForgetCtx, CloseFile, Open
<1> QED
  BY <1>1, <1>2, <1>3

LEMMA CallKept ==
  ASSUME TypeOK, NEW u \in Waiters, WakesCall(u), WakeEffect(u),
         Suspending(u)' <=> Suspending(u)
  PROVE  WakesCall(u)'
  BY DEF TypeOK, IOTypeOK, WakesCall, WakeEffect

(* A call's own steps.                                                     *)
LEMMA CallSelf ==
  ASSUME TypeOK, ItemInv, WaiterInv, PcInv, NEW w \in crew, NEW u \in cast,
         Plan[u].kind # "sleep", ~Shared(u), fault' = "none", WakesCall(u), TaskStep(w, u)
  PROVE  WakesCall(u)'
<1>0. /\ u \in Waiters /\ w \in Workers /\ Fd(u) \in Fds /\ {Dir(u)} \in SUBSET Dirs
      /\ pc \in [Waiters -> Statements] /\ queued \in [Waiters -> Nat] /\ PcPart(u)
  BY PlanFacts DEF TypeOK, IOTypeOK, PcInv
<1>1. ASSUME UNCHANGED <<events, waiter, queued>>, NEW s, Goto(u, s),
             pc[u] \in {"yield", "wait"} <=> s \in {"yield", "wait"}
      PROVE  WakesCall(u)'
  <2>1. Suspending(u)' <=> Suspending(u)
    BY <1>0, <1>1 DEF Suspending, Goto
  <2> QED
    BY <1>0, <1>1, <2>1, WakeKept, CallKept
<1>2. CASE Start(w, u)
  BY <1>1, <1>2 DEF Start, ioVars
<1>3. CASE TrySucceeds(w, u)
  BY <1>1, <1>3 DEF TrySucceeds, Return, At
<1>4. CASE TryBlocks(w, u)
  BY <1>1, <1>4 DEF TryBlocks, At, ioVars
<1>5. CASE PassBlocks(w, u) \/ TimedOut(w, u) \/ CheckConnected(w, u)
  BY <1>1, <1>5 DEF PassBlocks, TimedOut, CheckConnected, Return, At, ioVars
<1>6. CASE ArmTimer(w, u)
  BY <1>1, <1>6 DEF ArmTimer, At, ioVars
<1>7. CASE TestSize(w, u)
  BY <1>1, <1>7 DEF TestSize, At, ioVars
<1>8. CASE ResizeContexts(w, u)
  BY <1>1, <1>8 DEF ResizeContexts, At, Resize, End
<1>9. CASE Register(w, u)
  <2>1. pc[u] = "lookup" /\ pc'[u] \in {"yield", "wait"} /\ Plan[u].kind # "flags"
    BY <1>0, <1>9 DEF Register, At, Goto, PcPart
  <2>2. queued[u] = 0
    BY <2>1 DEF WakesCall, Suspending
  <2>3. Added(u, Fd(u), Dir(u))
    BY <1>9, AddOutcome DEF End
  <2>4. queued' = queued /\ Registered(u)'
    BY <1>0, <2>1, <2>3, AddedWakes
  <2> QED
    BY <2>1, <2>2, <2>4 DEF WakesCall, Suspending
<1>10. CASE YieldToHold(w, u)
  BY <1>1, <1>10 DEF YieldToHold, At, ioVars
<1>11. CASE Resume(w, u)
  <2>1. /\ pc[u] = "wait" /\ queued[u] > 0 /\ queued'[u] = queued[u] - 1
        /\ pc'[u] \in {"idle", "woken"} /\ UNCHANGED <<events, waiter>>
    BY <1>0, <1>11 DEF Resume, Goto
  <2>2. queued[u] = 1 /\ ~Registered(u)
    BY <1>0, <2>1 DEF WakesCall, Suspending
  <2>3. queued'[u] = 0 /\ ~Registered(u)'
    BY <2>1, <2>2 DEF Registered
  <2> QED
    BY <2>1, <2>3 DEF WakesCall, Suspending
<1>12. CASE TryAgain(w, u)
  BY <1>1, <1>12 DEF TryAgain, At, ioVars
<1>13. CASE Withdraw(w, u)
  <2>1. /\ Plan[u].kind = "callback" /\ pc[u] = "wait" /\ pc'[u] = "idle"
        /\ Dir(u) \in events[Fd(u)] /\ Remove(Fd(u), {Dir(u)}, FALSE)
    BY <1>0, <1>13 DEF Withdraw, DelEvent, Goto
  <2>2. Registered(u)
    <3>1. /\ waiter[Fd(u)][Dir(u)] \in cast
          /\ Fd(waiter[Fd(u)][Dir(u)]) = Fd(u) /\ Dir(waiter[Fd(u)][Dir(u)]) = Dir(u)
          /\ Plan[waiter[Fd(u)][Dir(u)]].kind \notin {"sleep", "flags"}
      BY <1>0, <2>1 DEF WaiterInv
    <3>2. waiter[Fd(u)][Dir(u)] = u
      BY <2>1, <3>1 DEF Shared
    <3> QED
      BY <2>1, <3>2 DEF Registered
  <2>3. queued[u] = 0
    BY <2>1, <2>2 DEF WakesCall, Suspending
  <2>4. Removed(Fd(u), {Dir(u)}, FALSE)
    BY <1>0, <2>1, RemoveOutcome DEF End
  <2>5. ~Registered(u)' /\ queued'[u] = queued[u]
    <3>1. events'[Fd(u)] = events[Fd(u)] \ {Dir(u)} /\ queued' = queued
      BY <1>0, <2>4 DEF Removed, TypeOK, IOTypeOK
    <3> QED
      BY <3>1 DEF Registered, Fd, Dir
  <2> QED
    BY <2>1, <2>3, <2>5 DEF WakesCall, Suspending
<1> QED
  BY <1>2, <1>3, <1>4, <1>5, <1>6, <1>7, <1>8, <1>9, <1>10, <1>11, <1>12, <1>13
     DEF TaskStep

(* A sleep's own steps.                                                    *)
LEMMA SleepSelf ==
  ASSUME TypeOK, PcInv, NEW w \in crew, NEW u \in cast, Plan[u].kind = "sleep",
         WakesSleep(u), TaskStep(w, u) \/ TimerStep(w, u), TimerInv
  PROVE  WakesSleep(u)'
<1>0. /\ u \in Waiters /\ w \in Workers
      /\ pc \in [Waiters -> Statements] /\ queued \in [Waiters -> Nat]
      /\ pc[u] \in {"idle", "arm", "yield", "wait"} /\ Nothing # TimingOut(u)
      /\ ~HasTimer(u)
  BY Activities DEF TypeOK, IOTypeOK, PcInv, PcPart, HasTimer
<1>1. CASE Start(w, u)
  <2>1. /\ pc[u] = "idle" /\ pc'[u] = "arm" /\ UNCHANGED <<armed, due, queued>>
    BY <1>0, <1>1 DEF Start, Goto, ioVars
  <2> QED
    BY <2>1 DEF WakesSleep, Suspending
<1>2. CASE ArmTimer(w, u)
  <2>1. /\ pc[u] = "arm" /\ pc'[u] = "yield" /\ UNCHANGED <<due, queued>>
        /\ armed' = armed \cup {u}
    BY <1>0, <1>2 DEF ArmTimer, Goto, At, ioVars
  <2> QED
    BY <2>1 DEF WakesSleep, Suspending
<1>3. CASE YieldToHold(w, u)
  <2>1. /\ pc[u] = "yield" /\ pc'[u] = "wait" /\ UNCHANGED <<armed, due, queued>>
    BY <1>0, <1>3 DEF YieldToHold, Goto, At, ioVars
  <2> QED
    BY <2>1 DEF WakesSleep, Suspending
<1>4. CASE Resume(w, u)
  <2>1. /\ pc[u] = "wait" /\ pc'[u] = "idle" /\ UNCHANGED <<armed, due>>
        /\ queued[u] > 0 /\ queued'[u] = queued[u] - 1
    BY <1>0, <1>4 DEF Resume, Goto
  <2> QED
    BY <1>0, <2>1 DEF WakesSleep, Suspending
<1>5. CASE Expire(w, u)
  <2>1. /\ u \in armed /\ armed' = armed \ {u} /\ due' = due \cup {u}
        /\ UNCHANGED <<pc, queued>>
    BY <1>5 DEF Expire, ioVars
  <2> QED
    BY <2>1 DEF WakesSleep, Suspending
<1>6. CASE EndSleep(w, u)
  <2>1. /\ u \in due /\ due' = due \ {u} /\ queued'[u] = queued[u] + 1
        /\ UNCHANGED <<pc, armed>>
    BY <1>0, <1>6 DEF EndSleep
  <2> QED
    BY <1>0, <2>1 DEF WakesSleep, Suspending
<1>7. CASE RunTimeout(w, u)
  BY <1>7 DEF RunTimeout
<1>8. CASE CancelWait(w, u)
  BY <1>0, <1>8 DEF CancelWait, TimerInv, TimerPart
<1>9. CASE \/ TrySucceeds(w, u) \/ TryBlocks(w, u) \/ PassBlocks(w, u) \/ TestSize(w, u)
           \/ ResizeContexts(w, u) \/ Register(w, u) \/ TimedOut(w, u) \/ TryAgain(w, u)
           \/ CheckConnected(w, u)
  BY <1>0, <1>9 DEF TrySucceeds, TryBlocks, PassBlocks, TestSize, ResizeContexts, Register,
     TimedOut, TryAgain, CheckConnected, At
<1>10. CASE Withdraw(w, u)
  BY <1>10 DEF Withdraw
<1> QED
  BY <1>1, <1>2, <1>3, <1>4, <1>5, <1>6, <1>7, <1>8, <1>9, <1>10 DEF TaskStep, TimerStep

LEMMA WakeStep ==
  TypeOK /\ ItemInv /\ WaiterInv /\ PcInv /\ TimerInv /\ WakeInv /\ [Next]_vars => WakeInv'
<1> SUFFICES ASSUME TypeOK, ItemInv, WaiterInv, PcInv, TimerInv, WakeInv, [Next]_vars
             PROVE  WakeInv'
  OBVIOUS
<1>0. /\ crew \subseteq Workers /\ cast \subseteq Waiters /\ Busy \subseteq Fds
      /\ UNCHANGED <<cast, crew>> /\ (Next => fault = "none")
  BY BusyFacts DEF TypeOK, Next, vars
<1>1. SUFFICES ASSUME NEW u \in Waiters
               PROVE  /\ Plan[u].kind = "sleep" => WakesSleep(u)'
                      /\ Plan[u].kind # "sleep" => Shared(u) \/ fault' # "none" \/ WakesCall(u)'
  BY <1>0 DEF WakeInv, Shared, Fd, Dir
<1>2. CASE UNCHANGED vars
  BY <1>2 DEF WakeInv, WakesSleep, WakesCall, Registered, Suspending, vars, ioVars, hookVars
<1>3. CASE Next /\ Plan[u].kind # "sleep" /\ ~Shared(u) /\ fault' = "none"
  <2>1. WakesCall(u)
    BY <1>0, <1>3 DEF WakeInv
  <2>2. ASSUME WakeEffect(u), pc'[u] = pc[u]
        PROVE  WakesCall(u)'
    BY <2>1, <2>2, CallKept DEF Suspending
  <2>3. ASSUME NEW w \in crew, NEW t \in cast, TaskStep(w, t)
        PROVE  WakesCall(u)'
    <3>1. CASE t = u
      BY <1>3, <2>1, <2>3, <3>1, CallSelf
    <3>2. CASE t # u
      BY <1>3, <2>2, <2>3, <3>2, OthersWake, OthersTimers
    <3> QED
      BY <3>1, <3>2
  <2>4. ASSUME NEW w \in crew, NEW t \in cast, TimerStep(w, t)
        PROVE  WakesCall(u)'
    <3>1. UNCHANGED pc
      BY <2>4 DEF TimerStep, Expire, RunTimeout, CancelWait, EndSleep
    <3>2. ~EndSleep(w, u)
      BY <1>3 DEF EndSleep
    <3> QED
      BY <1>3, <2>2, <2>4, <3>1, <3>2, OthersWake
  <2>5. ASSUME NEW w \in crew, NEW t \in cast, FlagStep(w, t)
        PROVE  WakesCall(u)'
    BY <1>3, <2>2, <2>5, OthersWake, TimersKept
  <2>6. ASSUME NEW w \in crew, IdleStep(w)
        PROVE  WakesCall(u)'
    BY <1>3, <2>2, <2>6, OthersWake, TimersKept
  <2>7. ASSUME NEW w \in crew, NEW fd \in Fds, CloseStep(w, fd)
        PROVE  WakesCall(u)'
    BY <1>3, <2>2, <2>7, OthersWake, TimersKept
  <2>8. ASSUME Kernel
        PROVE  WakesCall(u)'
    <3>1. UNCHANGED <<events, waiter, queued, pc, armed, due>>
      BY <2>8 DEF Kernel, BecomesReady, hookVars
    <3> QED
      BY <2>2, <3>1, WakeKept
  <2> QED
    BY <1>0, <1>3, <2>3, <2>4, <2>5, <2>6, <2>7, <2>8 DEF Next, Step
<1>4. CASE Next /\ Plan[u].kind = "sleep"
  <2>1. WakesSleep(u) /\ ~Shared(u)
    BY <1>4 DEF WakeInv, Shared
  <2>2. ~Registered(u)
    BY <1>4, PlanFacts DEF Registered, WaiterInv
  <2>3. ASSUME WakeEffect(u), pc'[u] = pc[u],
               u \in armed' <=> u \in armed, u \in due' <=> u \in due
        PROVE  WakesSleep(u)'
    BY <2>1, <2>2, <2>3 DEF WakeEffect, WakesSleep, Suspending
  <2>4. ASSUME NEW w \in crew, NEW t \in cast, TaskStep(w, t) \/ TimerStep(w, t)
        PROVE  WakesSleep(u)'
    <3>1. CASE t = u
      BY <1>4, <2>1, <2>4, <3>1, SleepSelf
    <3>2. CASE t # u
      BY <2>1, <2>3, <2>4, <3>2, OthersWake, OthersTimers
    <3> QED
      BY <3>1, <3>2
  <2>5. ASSUME NEW w \in crew, NEW t \in cast, FlagStep(w, t)
        PROVE  WakesSleep(u)'
    BY <2>1, <2>3, <2>5, OthersWake, TimersKept
  <2>6. ASSUME NEW w \in crew, IdleStep(w)
        PROVE  WakesSleep(u)'
    BY <2>1, <2>3, <2>6, OthersWake, TimersKept
  <2>7. ASSUME NEW w \in crew, NEW fd \in Fds, CloseStep(w, fd)
        PROVE  WakesSleep(u)'
    BY <2>1, <2>3, <2>7, OthersWake, TimersKept
  <2>8. ASSUME Kernel
        PROVE  WakesSleep(u)'
    <3>1. UNCHANGED <<events, waiter, queued, pc, armed, due>>
      BY <2>8 DEF Kernel, BecomesReady, hookVars
    <3> QED
      BY <2>3, <3>1, WakeKept
  <2> QED
    BY <1>0, <1>4, <2>4, <2>5, <2>6, <2>7, <2>8 DEF Next, Step
<1> QED
  BY <1>2, <1>3, <1>4

-----------------------------------------------------------------------------
(***************************************************************************)
(* The timers of the calls.                                                *)
(***************************************************************************)
LEMMA GuardKept ==
  ASSUME TypeOK, TypeOK', NEW u \in Waiters, Guarded(u), UNCHANGED <<cast, crew>>,
         \A v \in Workers : on[v] = TimingOut(u) => on'[v] = TimingOut(u),
         Shared(u) \/ queued'[u] = queued[u] \/ WakeEffect(u),
         u \in early => u \in early', raced \subseteq raced'
  PROVE  Guarded(u)'
<1>1. queued[u] \in Nat /\ (Shared(u)' <=> Shared(u)) /\ (Alone' <=> Alone)
  BY DEF TypeOK, IOTypeOK, Shared, Alone, Fd, Dir
<1>2. Fd(u)' = Fd(u)
  BY DEF Fd
<1>3. queued[u] > 0 => Shared(u) \/ queued'[u] > 0
  BY <1>1 DEF WakeEffect
<1> QED
  BY <1>1, <1>2, <1>3 DEF Guarded

LEMMA TimerKept ==
  ASSUME TypeOK, TypeOK', NEW u \in Waiters, TimerPart(u), UNCHANGED <<cast, crew>>,
         \A v \in Workers : on[v] = TimingOut(u) <=> on'[v] = TimingOut(u),
         Shared(u) \/ queued'[u] = queued[u] \/ WakeEffect(u),
         u \in early' <=> u \in early, raced \subseteq raced',
         u \in armed' <=> u \in armed, u \in due' <=> u \in due,
         u \in cancelled' <=> u \in cancelled, pc'[u] = pc[u]
  PROVE  TimerPart(u)'
<1>1. Guarded(u) => Guarded(u)'
  BY GuardKept
<1>2. /\ (Alone' <=> Alone) /\ (HasTimer(u)' <=> HasTimer(u))
      /\ (Suspending(u)' <=> Suspending(u))
  BY DEF Alone, HasTimer, Suspending
<1> QED
  BY <1>1, <1>2 DEF TimerPart

(* A call's own steps.                                                     *)
LEMMA TimerSelf ==
  ASSUME TypeOK, TypeOK', WorkerInv, PcInv, WakeInv, TimerInv, NEW w \in crew,
         NEW u \in cast, TaskStep(w, u), UNCHANGED <<cast, crew>>
  PROVE  TimerPart(u)'
<1>0. /\ u \in Waiters /\ w \in Workers /\ pc \in [Waiters -> Statements]
      /\ PcPart(u) /\ TimerPart(u)
      /\ (Alone' <=> Alone) /\ (HasTimer(u)' <=> HasTimer(u))
      /\ HasTimer(u) <=> Plan[u].kind \in {"io", "connect"}
      /\ Plan[u].kind \in {"io", "connect", "callback", "sleep", "flags"}
      /\ Plan[u].timed \in BOOLEAN
  BY PlanFacts DEF TypeOK, PcInv, TimerInv, Alone, HasTimer
<1>1. /\ \A v \in Workers : on[v] = TimingOut(u) <=> on'[v] = TimingOut(u)
      /\ UNCHANGED raced
  <2>1. CallStep(w, u)
    BY <1>0, TaskControl
  <2> QED
    BY <2>1, SocketsKept, Activities DEF CallStep, Elsewhere
<1>2. ASSUME Return(w, u), on[w] = Executing(u)
      PROVE  TimerPart(u)'
  <2>1. /\ u \notin armed' /\ u \notin due' /\ u \notin cancelled' /\ pc'[u] = "idle"
    BY <1>0, <1>2 DEF Return, Goto
  <2>2. Alone => \A v \in Workers : on[v] # TimingOut(u)
    BY <1>0, <1>2, OneBusy, Activities
  <2> QED
    BY <1>0, <1>1, <2>1, <2>2 DEF TimerPart
<1>3. ASSUME UNCHANGED <<armed, due, cancelled>>, ~Suspending(u)',
             pc'[u] # "idle", Alone /\ u \in cancelled => pc'[u] \in {"wait", "woken"},
             \/ ~(Plan[u].timed /\ HasTimer(u))
             \/ pc'[u] \notin {"add", "resize", "lookup", "yield", "wait"}
             \/ pc[u] \in {"add", "resize", "lookup", "yield", "wait"}
      PROVE  TimerPart(u)'
  BY <1>0, <1>1, <1>3 DEF TimerPart
<1>4. CASE Start(w, u)
  <2>1. /\ pc[u] = "idle" /\ pc'[u] \in {"add", "arm", "pass", "try"}
        /\ UNCHANGED <<armed, due, cancelled>>
        /\ HasTimer(u) => pc'[u] \in {"pass", "try"}
    BY <1>0, <1>4 DEF Start, Goto
  <2>2. u \notin cancelled /\ ~Suspending(u)'
    BY <1>0, <2>1 DEF TimerPart, Suspending
  <2> QED
    BY <1>3, <2>1, <2>2
<1>5. CASE TrySucceeds(w, u) \/ PassBlocks(w, u) \/ TimedOut(w, u) \/ CheckConnected(w, u)
  BY <1>2, <1>5 DEF TrySucceeds, PassBlocks, TimedOut, CheckConnected, At
<1>6. CASE TryBlocks(w, u)
  <2>1. /\ pc[u] = "try" /\ pc'[u] = (IF Plan[u].timed THEN "arm" ELSE "add")
        /\ UNCHANGED <<armed, due, cancelled>>
    BY <1>0, <1>6 DEF TryBlocks, Goto, At
  <2>2. ~Suspending(u)' /\ (Alone => u \notin cancelled)
    BY <1>0, <2>1 DEF TimerPart, Suspending
  <2> QED
    BY <1>3, <2>1, <2>2
<1>7. CASE ArmTimer(w, u)
  <2>1. /\ pc[u] = "arm" /\ pc'[u] = (IF Plan[u].kind = "sleep" THEN "yield" ELSE "add")
        /\ armed' = armed \cup {u} /\ UNCHANGED <<due, cancelled>>
    BY <1>0, <1>7 DEF ArmTimer, Goto, At
  <2>2. /\ Plan[u].kind \notin {"callback", "flags"} /\ (Alone => u \notin cancelled)
        /\ HasTimer(u) => ~Suspending(u)'
    BY <1>0, <2>1 DEF TimerPart, PcPart, Suspending
  <2> QED
    BY <1>0, <1>1, <2>1, <2>2 DEF TimerPart
<1>8. CASE TestSize(w, u) \/ ResizeContexts(w, u)
  <2>1. /\ pc[u] \in {"add", "resize"} /\ pc'[u] \in {"resize", "lookup"}
        /\ UNCHANGED <<armed, due, cancelled>>
    BY <1>0, <1>8 DEF TestSize, ResizeContexts, Goto, At
  <2>2. ~Suspending(u)' /\ (Alone => u \notin cancelled)
    BY <1>0, <2>1 DEF TimerPart, Suspending
  <2> QED
    BY <1>3, <2>1, <2>2
<1>9. CASE Register(w, u)
  <2>1. /\ pc[u] = "lookup" /\ pc'[u] \in {"yield", "wait"}
        /\ UNCHANGED <<armed, due, cancelled>>
        /\ u \in cancelled => u \in early'
    BY <1>0, <1>9 DEF Register, Goto, At
  <2>2. Alone => u \notin cancelled
    BY <1>0, <2>1 DEF TimerPart
  <2>3. u \in cancelled' => Guarded(u)'
    BY <1>0, <2>1, <2>2 DEF Guarded
  <2> QED
    BY <1>0, <1>1, <2>1, <2>2, <2>3 DEF TimerPart
<1>10. CASE YieldToHold(w, u)
  <2>1. /\ pc[u] = "yield" /\ pc'[u] = "wait"
        /\ UNCHANGED <<armed, due, cancelled, early, queued>>
    BY <1>0, <1>10 DEF YieldToHold, Goto, At, ioVars
  <2>2. Guarded(u) => Guarded(u)'
    BY <1>0, <1>1, <2>1, GuardKept
  <2>3. u \in cancelled' /\ HasTimer(u)' => Guarded(u)'
    BY <1>0, <2>1, <2>2 DEF TimerPart, Suspending
  <2> QED
    BY <1>0, <1>1, <2>1, <2>3 DEF TimerPart
<1>11. CASE Resume(w, u)
  <2>1. /\ pc[u] = "wait" /\ queued[u] > 0 /\ UNCHANGED <<armed, due, cancelled>>
        /\ pc'[u] = IF Plan[u].kind \in {"callback", "sleep"} THEN "idle" ELSE "woken"
    BY <1>0, <1>11 DEF Resume, Goto
  <2>2. CASE Plan[u].kind \in {"callback", "sleep"}
    <3>1. u \notin armed /\ u \notin due /\ u \notin cancelled
      <4>1. CASE Plan[u].kind = "callback"
        BY <1>0, <4>1 DEF TimerPart
      <4>2. CASE Plan[u].kind = "sleep"
        <5>1. WakesSleep(u)
          BY <1>0, <4>2 DEF WakeInv
        <5>2. u \notin armed /\ u \notin due
          BY <2>1, <5>1 DEF WakesSleep, Suspending
        <5> QED
          BY <1>0, <4>2, <5>2 DEF TimerPart
      <4> QED
        BY <2>2, <4>1, <4>2
    <3>2. pc'[u] = "idle"
      BY <2>1, <2>2
    <3> QED
      BY <1>0, <1>1, <2>1, <3>1, <3>2 DEF TimerPart
  <2>3. CASE Plan[u].kind \notin {"callback", "sleep"}
    <3>1. pc'[u] = "woken" /\ ~Suspending(u)'
      BY <2>1, <2>3 DEF Suspending
    <3> QED
      BY <1>3, <2>1, <3>1
  <2> QED
    BY <2>2, <2>3
<1>12. CASE TryAgain(w, u)
  <2>1. /\ pc[u] = "woken" /\ u \notin cancelled /\ pc'[u] \in {"try", "check"}
        /\ armed' = armed \ {u} /\ UNCHANGED <<due, cancelled>>
    BY <1>0, <1>12 DEF TryAgain, Goto, At
  <2> QED
    BY <1>0, <1>1, <2>1 DEF TimerPart
<1>13. CASE Withdraw(w, u)
  <2>1. /\ Plan[u].kind = "callback" /\ pc'[u] = "idle"
        /\ UNCHANGED <<armed, due, cancelled>>
    BY <1>0, <1>13 DEF Withdraw, Goto
  <2> QED
    BY <1>0, <1>1, <2>1 DEF TimerPart
<1> QED
  BY <1>4, <1>5, <1>6, <1>7, <1>8, <1>9, <1>10, <1>11, <1>12, <1>13 DEF TaskStep

(* What the timer of u does.                                               *)
LEMMA TimerFires ==
  ASSUME TypeOK, TypeOK', ItemInv, WaiterInv, WorkerInv, PcInv, WakeInv, TimerInv,
         fault = "none", NEW w \in crew, NEW u \in cast, TimerStep(w, u),
         UNCHANGED <<cast, crew>>
  PROVE  TimerPart(u)'
<1>0. /\ u \in Waiters /\ w \in Workers /\ on \in [Workers -> Activity]
      /\ PcPart(u) /\ TimerPart(u)
      /\ (Alone' <=> Alone) /\ (HasTimer(u)' <=> HasTimer(u))
      /\ HasTimer(u) <=> Plan[u].kind \in {"io", "connect"}
      /\ Plan[u].kind \in {"io", "connect", "callback", "sleep", "flags"}
      /\ (Shared(u)' <=> Shared(u)) /\ Fd(u) \in Fds /\ {Dir(u)} \in SUBSET Dirs
      /\ queued[u] \in Nat
  BY PlanFacts DEF TypeOK, IOTypeOK, PcInv, TimerInv, Alone, HasTimer, Shared, Fd, Dir
<1>1. /\ UNCHANGED <<pc, early, raced>>
  BY SocketsKept DEF TimerStep, Expire, RunTimeout, CancelWait, EndSleep
<1>2. Suspending(u)' <=> Suspending(u)
  BY <1>1 DEF Suspending
<1>3. CASE Expire(w, u)
  <2>1. /\ u \in armed /\ due' = due \cup {u} /\ UNCHANGED <<on, cancelled, queued>>
    BY <1>3 DEF Expire, ioVars
  <2>2. u \notin armed' /\ u \in due'
    BY <1>3 DEF Expire
  <2>3. Guarded(u) => Guarded(u)'
    BY <1>0, <1>1, <2>1, GuardKept
  <2> QED
    BY <1>0, <1>1, <1>2, <2>1, <2>2, <2>3 DEF TimerPart
<1>4. CASE RunTimeout(w, u)
  <2>1. /\ on[w] = Nothing /\ u \in due /\ Plan[u].kind # "sleep"
        /\ u \notin due' /\ u \in cancelled' /\ UNCHANGED <<armed, queued>>
        /\ IF u \in cancelled THEN UNCHANGED on ELSE on' = [on EXCEPT ![w] = TimingOut(u)]
    BY <1>4 DEF RunTimeout, Idle, Does, ioVars
  <2>2. pc[u] # "idle" /\ HasTimer(u) /\ u \in cast
    BY <1>0, <2>1 DEF TimerPart
  <2>3. Alone => pc[u] = "wait"
    BY <1>0, <2>1, <2>2, OneBusy, Activities DEF Runs
  <2>4. Guarded(u)' \/ ~Suspending(u)
    <3>1. CASE u \in cancelled
      <4>1. Guarded(u) => Guarded(u)'
        BY <1>0, <1>1, <2>1, <3>1, GuardKept
      <4> QED
        BY <1>0, <2>2, <3>1, <4>1 DEF TimerPart
    <3>2. CASE u \notin cancelled
      BY <1>0, <2>1, <3>2 DEF Guarded
    <3> QED
      BY <3>1, <3>2
  <2> QED
    BY <1>0, <1>1, <1>2, <2>1, <2>2, <2>3, <2>4 DEF TimerPart
<1>5. CASE EndSleep(w, u)
  <2>1. /\ Plan[u].kind = "sleep" /\ u \notin due' /\ UNCHANGED <<on, armed, cancelled>>
    BY <1>5 DEF EndSleep
  <2>2. ~HasTimer(u) /\ u \notin cancelled /\ u \in cast
    BY <1>0, <2>1 DEF TimerPart
  <2>3. u \in armed' => u \in armed
    BY <2>1
  <2> QED
    BY <1>0, <1>1, <1>2, <2>1, <2>2, <2>3 DEF TimerPart
<1>6. CASE CancelWait(w, u)
  <2>1. /\ on[w] = TimingOut(u) /\ on' = [on EXCEPT ![w] = Nothing]
        /\ Remove(Fd(u), {Dir(u)}, TRUE) /\ UNCHANGED <<armed, due, cancelled>>
    BY <1>6 DEF CancelWait, CancelEvent, Does
  <2>2. \A v \in Workers : on'[v] = TimingOut(u) => on[v] = TimingOut(u)
    BY <1>0, <2>1, Activities
  <2>3. Suspending(u) /\ HasTimer(u) => Guarded(u)'
    <3>1. SUFFICES ASSUME Suspending(u), HasTimer(u), ~Shared(u), Fd(u) \notin raced
                   PROVE  queued'[u] > 0
      BY <1>0, <1>1 DEF Guarded, Fd
    <3>2. WakesCall(u)
      BY <1>0, <3>1 DEF WakeInv
    <3>3. CASE ~Registered(u)
      <4>1. queued[u] = 1
        BY <3>1, <3>2, <3>3 DEF WakesCall
      <4>2. WakeEffect(u)
        BY <1>0, <2>1, RemoveWake
      <4> QED
        BY <4>1, <4>2 DEF WakeEffect
    <3>4. CASE Registered(u)
      <4>1. Dir(u) \in events[Fd(u)] \cap {Dir(u)}
        BY <3>4 DEF Registered
      <4>2. Removed(Fd(u), {Dir(u)}, TRUE)
        BY <1>0, <2>1, <3>1, <4>1, RemoveOutcome
      <4>3. events'[Fd(u)] = events[Fd(u)] \ {Dir(u)}
        BY <1>0, <4>2 DEF Removed, TypeOK, IOTypeOK
      <4>4. ~Registered(u)'
        BY <4>3 DEF Registered, Fd, Dir
      <4>5. queued'[u] = queued[u] + 1
        BY <1>0, <3>4, <4>2, <4>4, RemovedWakes
      <4> QED
        BY <1>0, <4>5
    <3> QED
      BY <3>3, <3>4
  <2> QED
    BY <1>0, <1>1, <1>2, <2>1, <2>2, <2>3 DEF TimerPart
<1> QED
  BY <1>3, <1>4, <1>5, <1>6 DEF TimerStep

LEMMA TimerStepInv ==
  /\ TypeOK /\ ItemInv /\ WaiterInv /\ WorkerInv /\ PcInv /\ WakeInv /\ TimerInv
  /\ [Next]_vars
  => TimerInv'
<1> SUFFICES ASSUME TypeOK, ItemInv, WaiterInv, WorkerInv, PcInv, WakeInv, TimerInv,
                    [Next]_vars
             PROVE  TimerInv'
  OBVIOUS
<1>0. /\ crew \subseteq Workers /\ cast \subseteq Waiters /\ Busy \subseteq Fds
      /\ UNCHANGED <<cast, crew>> /\ (Next => fault = "none") /\ TypeOK'
  BY BusyFacts, HookTypeStep DEF TypeOK, Next, vars
<1>1. SUFFICES ASSUME NEW u \in Waiters
               PROVE  TimerPart(u)'
  BY DEF TimerInv
<1>2. TimerPart(u)
  BY DEF TimerInv
<1>3. CASE UNCHANGED vars
  <2>1. UNCHANGED <<on, queued, early, raced, armed, due, cancelled, pc>>
    BY <1>3 DEF vars, ioVars, hookVars
  <2> QED
    BY <1>0, <1>2, <2>1, TimerKept
<1>4. ASSUME NEW w \in crew, NEW t \in cast, TaskStep(w, t)
      PROVE  TimerPart(u)'
  <2>1. CASE t = u
    BY <1>0, <1>4, <2>1, TimerSelf
  <2>2. CASE t # u
    <3>1. CallStep(w, t) /\ UNCHANGED raced
      BY <1>0, <1>4, TaskControl, SocketsKept
    <3>2. \A v \in Workers : on[v] = TimingOut(u) <=> on'[v] = TimingOut(u)
      BY <3>1, Activities DEF CallStep, Elsewhere
    <3>3. Shared(u) \/ WakeEffect(u)
      BY <1>0, <1>4, <2>2, OthersWake
    <3>4. /\ (u \in armed' <=> u \in armed) /\ (u \in due' <=> u \in due)
          /\ (u \in cancelled' <=> u \in cancelled) /\ (u \in early' <=> u \in early)
          /\ pc'[u] = pc[u]
      BY <1>0, <1>4, <2>2, OthersTimers
    <3> QED
      BY <1>0, <1>2, <3>1, <3>2, <3>3, <3>4, TimerKept
  <2> QED
    BY <2>1, <2>2
<1>5. ASSUME NEW w \in crew, NEW t \in cast, TimerStep(w, t), fault = "none"
      PROVE  TimerPart(u)'
  <2>1. CASE t = u
    BY <1>0, <1>5, <2>1, TimerFires
  <2>2. CASE t # u
    <3>1. Switch(w, {Nothing, TimingOut(t)}) /\ UNCHANGED raced
      BY <1>0, <1>5, OtherControl, SocketsKept
    <3>2. \A v \in Workers : on[v] = TimingOut(u) <=> on'[v] = TimingOut(u)
      BY <2>2, <3>1, Activities DEF Switch, Elsewhere
    <3>3. Shared(u) \/ WakeEffect(u)
      BY <1>0, <1>5, <2>2, OthersWake
    <3>4. /\ (u \in armed' <=> u \in armed) /\ (u \in due' <=> u \in due)
          /\ (u \in cancelled' <=> u \in cancelled) /\ (u \in early' <=> u \in early)
          /\ pc'[u] = pc[u]
      BY <1>0, <1>5, <2>2, OthersTimers
    <3> QED
      BY <1>0, <1>2, <3>1, <3>2, <3>3, <3>4, TimerKept
  <2> QED
    BY <2>1, <2>2
<1>6. ASSUME NEW w \in crew, NEW A, Switch(w, A), TimingOut(u) \notin A,
             UNCHANGED <<pc, armed, due, cancelled, early>>, raced \subseteq raced',
             Shared(u) \/ WakeEffect(u)
      PROVE  TimerPart(u)'
  <2>1. \A v \in Workers : on[v] = TimingOut(u) <=> on'[v] = TimingOut(u)
    BY <1>6 DEF Switch, Elsewhere
  <2> QED
    BY <1>0, <1>2, <1>6, <2>1, TimerKept
<1>7. ASSUME NEW w \in crew, NEW t \in cast, FlagStep(w, t)
      PROVE  TimerPart(u)'
  <2>1. UNCHANGED <<ioVars, pc, on, armed, due, cancelled, early, raced>>
    BY <1>7 DEF FlagStep, Fcntl, Ioctl, FlagCall
  <2>2. UNCHANGED <<pc, on, armed, due, cancelled, early, raced, queued>>
    BY <2>1 DEF ioVars
  <2> QED
    BY <1>0, <1>2, <2>2, TimerKept
<1>8. ASSUME NEW w \in crew, IdleStep(w)
      PROVE  TimerPart(u)'
  <2>1. Switch(w, {Nothing, Handling}) /\ TimingOut(u) \notin {Nothing, Handling}
    BY <1>0, <1>8, OtherControl, Activities
  <2>2. UNCHANGED raced
    BY <1>8 DEF IdleStep, EpollWait, HandleEvent
  <2> QED
    BY <1>6, <1>8, <2>1, <2>2, OthersWake, TimersKept
<1>9. ASSUME NEW w \in crew, NEW fd \in Fds, CloseStep(w, fd)
      PROVE  TimerPart(u)'
  <2>1. /\ Switch(w, {Nothing, Closing(fd), Forgetting(fd)})
        /\ TimingOut(u) \notin {Nothing, Closing(fd), Forgetting(fd)}
    BY <1>0, <1>9, OtherControl, Activities
  <2>2. raced \subseteq raced'
    BY <1>9 DEF CloseStep, Close, ForgetCtx, CloseFile, Open
  <2> QED
    BY <1>6, <1>9, <2>1, <2>2, OthersWake, TimersKept
<1>10. CASE Kernel
  <2>1. UNCHANGED <<on, queued, early, raced, armed, due, cancelled, pc>>
    BY <1>10 DEF Kernel, BecomesReady, hookVars
  <2> QED
    BY <1>0, <1>2, <2>1, TimerKept
<1> QED
  BY <1>0, <1>3, <1>4, <1>5, <1>7, <1>8, <1>9, <1>10 DEF Next, Step

-----------------------------------------------------------------------------
(***************************************************************************)
(* One worker: connect.                                                    *)
(***************************************************************************)
LEMMA FreshStep ==
  ASSUME TypeOK, WorkerInv, PcInv, Alone, FreshEvents, Next
  PROVE  FreshEvents'
<1>0. /\ IOTypeOK /\ crew \subseteq Workers /\ fault = "none"
      /\ \A w \in Workers : \A e \in fetched[w] : e.fd \in Fds
  BY DEF TypeOK, IOTypeOK, Next
<1>1. ASSUME UNCHANGED fetched, \A fd \in Fds : level[fd] \subseteq level'[fd]
      PROVE  FreshEvents'
  BY <1>0, <1>1 DEF FreshEvents
<1>2. ASSUME UNCHANGED fetched, NEW w \in crew, on[w] # Nothing, on[w] # Handling
      PROVE  FreshEvents'
  <2>1. \A v \in Workers : fetched[v] = {}
    BY <1>0, <1>2, OneBusy, Activities DEF WorkerInv
  <2> QED
    BY <1>2, <2>1 DEF FreshEvents
<1>3. CASE UNCHANGED regVars \/ Grows \/ Adds \/ Removes \/ Opens
  <2>1. UNCHANGED <<fetched, level>>
    BY <1>3 DEF regVars, Grows, Adds, Added, Removes, Removed, Opens, KernelOpen
  <2> QED
    BY <1>1, <2>1
<1>4. CASE Drains
  BY <1>2, <1>4, Activities DEF Drains
<1>5. CASE Fetches
  <2>1. PICK w \in Workers : Fetch(w)
    BY <1>5 DEF Fetches
  <2>2. \A e \in fetched'[w] : e.on \subseteq level[e.fd]
    BY <1>0, <2>1, FetchFacts DEF Reported
  <2>3. level' = level /\ \A v \in Workers \ {w} : fetched'[v] = fetched[v]
    BY <1>0, <2>1, FetchFacts
  <2> QED
    BY <2>2, <2>3 DEF FreshEvents
<1>6. CASE Handles
  <2>0. PICK w \in Workers : \E e \in fetched[w] : Handled(w, e)
    BY <1>6 DEF Handles
  <2>1. PICK e \in fetched[w] : Handled(w, e)
    BY <2>0
  <2>2. level' = level /\ \A v \in Workers : fetched'[v] \subseteq fetched[v]
    BY <1>0, <2>1 DEF Handled, IOTypeOK
  <2> QED
    BY <2>2 DEF FreshEvents
<1>7. CASE Closed
  <2>1. PICK fd \in Fds : KernelClose(fd) /\ \E w \in crew : on[w] = Forgetting(fd)
    BY <1>7 DEF Closed
  <2> QED
    BY <1>2, <2>1, Activities DEF KernelClose
<1>8. CASE Rises
  BY <1>0, <1>1, <1>8 DEF Rises, BecomesReady, IOTypeOK
<1> QED
  BY <1>3, <1>4, <1>5, <1>6, <1>7, <1>8, StepEffect

LEMMA OthersQueued ==
  ASSUME TypeOK, NEW w, NEW t \in Waiters, TaskStep(w, t), NEW u \in Waiters, u # t
  PROVE  queued'[u] = queued[u]
<1>1. CASE Aside(w, t)
  BY <1>1, AsideFacts DEF ioVars
<1>2. CASE TrySucceeds(w, t) \/ Resume(w, t)
  BY <1>2 DEF TrySucceeds, Resume, TypeOK, IOTypeOK
<1>3. CASE ResizeContexts(w, t) \/ Register(w, t)
  BY <1>3 DEF ResizeContexts, Register, Resize, AddEvent, End
<1>4. CASE Withdraw(w, t)
  BY <1>4 DEF Withdraw, DelEvent, Remove, End, ioVars
<1> QED
  BY <1>1, <1>2, <1>3, <1>4 DEF TaskStep, Aside

LEMMA LevelKept ==
  ASSUME NEW w, NEW t
  PROVE  /\ TaskStep(w, t) => level' = level \/ TrySucceeds(w, t)
         /\ TimerStep(w, t) \/ FlagStep(w, t) => level' = level
         /\ IdleStep(w) => level' = level
<1>1. CASE Aside(w, t)
  BY <1>1, AsideFacts DEF ioVars, IdleStep, EpollWait, HandleEvent, Fetch, Handle, End
<1>2. ~Aside(w, t) => (TaskStep(w, t) => level' = level \/ TrySucceeds(w, t))
  BY DEF TaskStep, Aside, Resume, ResizeContexts, Register, Resize, AddEvent, End, Withdraw,
     DelEvent, Remove, ioVars
<1>3. ~Aside(w, t) => (TimerStep(w, t) \/ FlagStep(w, t) => level' = level)
  BY DEF TimerStep, Aside, CancelWait, CancelEvent, Remove, End, ioVars, EndSleep
<1>4. IdleStep(w) => level' = level
  BY DEF IdleStep, EpollWait, HandleEvent, Fetch, Handle, End
<1> QED
  BY <1>1, <1>2, <1>3, <1>4

(* A reason lasts until the call returns.                                  *)
LEMMA ReasonKept ==
  ASSUME TypeOK, PcInv, NEW u \in Waiters, Plan[u].kind = "connect", ~Shared(u),
         Reason(u), pc[u] # "idle", pc'[u] # "idle", Next
  PROVE  Reason(u)'
<1>0. /\ crew \subseteq Workers /\ cast \subseteq Waiters /\ Busy \subseteq Fds
      /\ on \in [Workers -> Activity] /\ level \in [Fds -> SUBSET Conditions]
      /\ Fd(u) \in Fds /\ Fd(u)' = Fd(u) /\ Dir(u)' = Dir(u)
      /\ pc \in [Waiters -> Statements]
  BY BusyFacts, PlanFacts DEF TypeOK, IOTypeOK, Fd, Dir
<1>1. ASSUME level[Fd(u)] \cap {Dir(u), "HUP"} \subseteq level'[Fd(u)],
             u \in pulled => u \in pulled',
             \A v \in Workers : Closes(v, Fd(u)) => Closes(v, Fd(u))'
      PROVE  Reason(u)'
  <2>1. IsReady(u) => IsReady(u)'
    BY <1>0, <1>1 DEF IsReady
  <2> QED
    BY <1>0, <1>1, <2>1 DEF Reason, Closes
<1>2. ASSUME NEW w \in crew, NEW t \in cast, TaskStep(w, t)
      PROVE  Reason(u)'
  <2>1. \A v \in Workers : Closes(v, Fd(u)) => Closes(v, Fd(u))'
    <3>1. CallStep(w, t)
      BY <1>0, <1>2, TaskControl
    <3> QED
      BY <1>0, <3>1, Activities DEF CallStep, Elsewhere, Closes
  <2>2. u \in pulled => u \in pulled'
    <3>1. CASE t # u
      BY <1>2, <3>1, OthersTimers
    <3>2. CASE t = u
      <4>1. ~Return(w, u)
        BY <1>0 DEF Return, Goto
      <4>2. UNCHANGED pulled
        BY <1>2, <3>2, <4>1 DEF TaskStep, Start, TrySucceeds, TryBlocks, PassBlocks, ArmTimer,
           TestSize, ResizeContexts, Register, YieldToHold, Resume, TimedOut, TryAgain,
           CheckConnected, Withdraw
      <4> QED
        BY <4>2
    <3> QED
      BY <3>1, <3>2
  <2>3. level[Fd(u)] \cap {Dir(u), "HUP"} \subseteq level'[Fd(u)]
    <3>1. CASE level' = level
      BY <3>1
    <3>2. CASE TrySucceeds(w, t)
      <4>1. pc'[t] = "idle" /\ pc[t] \in {"try", "pass"} /\ t \in Waiters
        BY <1>0, <3>2 DEF TrySucceeds, Return, Goto, At
      <4>2. t # u /\ Plan[t].kind \notin {"sleep", "callback", "flags"}
        BY <4>1 DEF PcInv, PcPart
      <4>3. Fd(t) # Fd(u) \/ Dir(t) # Dir(u)
        BY <4>2 DEF Shared
      <4>4. /\ Fd(u) # Fd(t) => level'[Fd(u)] = level[Fd(u)]
            /\ level[Fd(u)] \ {Dir(t)} \subseteq level'[Fd(u)]
        BY <1>0, <3>2, <4>1, LevelFacts
      <4>5. Dir(t) # "HUP"
        BY <4>1, PlanFacts
      <4> QED
        BY <4>3, <4>4, <4>5
    <3> QED
      BY <1>2, <3>1, <3>2, LevelKept
  <2> QED
    BY <1>1, <2>1, <2>2, <2>3
<1>3. ASSUME NEW w \in crew, NEW t \in cast, TimerStep(w, t) \/ FlagStep(w, t)
      PROVE  Reason(u)'
  <2>1. Switch(w, {Nothing, TimingOut(t)}) /\ level' = level
    BY <1>0, <1>3, OtherControl, LevelKept
  <2>2. UNCHANGED pulled
    BY <1>3, TimersKept DEF TimerStep, Expire, RunTimeout, CancelWait, EndSleep
  <2>3. \A v \in Workers : Closes(v, Fd(u)) => Closes(v, Fd(u))'
    BY <1>0, <2>1, Activities DEF Switch, Elsewhere, Closes
  <2> QED
    BY <1>1, <2>1, <2>2, <2>3
<1>4. ASSUME NEW w \in crew, IdleStep(w)
      PROVE  Reason(u)'
  <2>1. Switch(w, {Nothing, Handling}) /\ level' = level
    BY <1>0, <1>4, OtherControl, LevelKept
  <2>2. UNCHANGED pulled
    BY <1>4, TimersKept
  <2>3. \A v \in Workers : Closes(v, Fd(u)) => Closes(v, Fd(u))'
    BY <1>0, <2>1, Activities DEF Switch, Elsewhere, Closes
  <2> QED
    BY <1>1, <2>1, <2>2, <2>3
<1>5. ASSUME NEW w \in crew, NEW fd \in Fds, CloseStep(w, fd)
      PROVE  Reason(u)'
  <2>1. CASE Close(w, fd) \/ Open(w, fd)
    <3>1. level' = level /\ UNCHANGED pulled
      BY <2>1 DEF Close, CancelAllEvent, Remove, End, ioVars, Open, KernelOpen
    <3>2. \A v \in Workers : Closes(v, Fd(u)) => Closes(v, Fd(u))'
      BY <1>0, <2>1, Activities DEF Close, Open, Idle, Does, Closes
    <3> QED
      BY <1>1, <3>1, <3>2
  <2>2. CASE ForgetCtx(w, fd)
    <3>1. level' = level /\ UNCHANGED pulled
      BY <2>2 DEF ForgetCtx, ioVars
    <3>2. \A v \in Workers : Closes(v, Fd(u)) => Closes(v, Fd(u))'
      BY <1>0, <2>2, Activities DEF ForgetCtx, Does, Closes
    <3> QED
      BY <1>1, <3>1, <3>2
  <2>3. CASE CloseFile(w, fd)
    <3>1. CASE fd = Fd(u)
      <4>1. u \in pulled'
        BY <2>3, <3>1 DEF CloseFile
      <4> QED
        BY <4>1 DEF Reason
    <3>2. CASE fd # Fd(u)
      <4>1. level'[Fd(u)] = level[Fd(u)] /\ (u \in pulled => u \in pulled')
        BY <1>0, <2>3, <3>2 DEF CloseFile, KernelClose
      <4>2. \A v \in Workers : Closes(v, Fd(u)) => Closes(v, Fd(u))'
        BY <1>0, <2>3, <3>2, Activities DEF CloseFile, Does, Closes
      <4> QED
        BY <1>1, <4>1, <4>2
    <3> QED
      BY <3>1, <3>2
  <2> QED
    BY <1>5, <2>1, <2>2, <2>3 DEF CloseStep
<1>6. CASE Kernel
  <2>1. UNCHANGED <<pulled, on>> /\ level[Fd(u)] \subseteq level'[Fd(u)]
    BY <1>0, <1>6 DEF Kernel, BecomesReady, hookVars
  <2>2. \A v \in Workers : Closes(v, Fd(u)) => Closes(v, Fd(u))'
    BY <1>0, <2>1 DEF Closes
  <2> QED
    BY <1>1, <2>1, <2>2
<1> QED
  BY <1>0, <1>2, <1>3, <1>4, <1>5, <1>6 DEF Next, Step

(* How a connect that was registered comes to be woken.                    *)
LEMMA WokenForReason ==
  ASSUME TypeOK, ItemInv, WaiterInv, WorkerInv, PcInv, TimerInv, Alone, FreshEvents,
         NEW u \in Waiters, Plan[u].kind = "connect", ~Shared(u), queued'[u] = queued[u] + 1,
         Next
  PROVE  u \in cancelled' \/ Reason(u)'
<1>0. /\ crew \subseteq Workers /\ cast \subseteq Waiters /\ Busy \subseteq Fds
      /\ on \in [Workers -> Activity] /\ queued[u] \in Nat
      /\ \A t \in Waiters : Fd(t) \in Fds /\ {Dir(t)} \in SUBSET Dirs
      /\ Fd(u)' = Fd(u) /\ Dir(u)' = Dir(u)
  BY BusyFacts, PlanFacts DEF TypeOK, IOTypeOK, Fd, Dir
<1>1. ASSUME NEW w \in crew, NEW t \in cast, TaskStep(w, t)
      PROVE  u \in cancelled' \/ Reason(u)'
  <2>1. t = u
    BY <1>0, <1>1, OthersQueued
  <2>2. queued' = queued \/ Resume(w, u)
    <3>1. CASE Aside(w, u)
      BY <3>1, AsideFacts DEF ioVars
    <3>2. CASE TrySucceeds(w, u) \/ ResizeContexts(w, u) \/ Register(w, u) \/ Withdraw(w, u)
      BY <3>2 DEF TrySucceeds, ResizeContexts, Register, Resize, AddEvent, End, Withdraw,
         DelEvent, Remove, ioVars
    <3> QED
      BY <1>1, <2>1, <3>1, <3>2 DEF TaskStep, Aside
  <2>3. Resume(w, u) => queued'[u] = queued[u] - 1
    BY <1>0 DEF Resume, TypeOK, IOTypeOK
  <2> QED
    BY <1>0, <2>2, <2>3
<1>2. ASSUME NEW w \in crew, NEW t \in cast, TimerStep(w, t) \/ FlagStep(w, t)
      PROVE  u \in cancelled' \/ Reason(u)'
  <2>1. CASE Aside(w, t)
    BY <1>0, <2>1, AsideFacts DEF ioVars
  <2>2. CASE EndSleep(w, t)
    BY <1>0, <2>2 DEF EndSleep, TypeOK, IOTypeOK
  <2>3. CASE CancelWait(w, t)
    <3>1. /\ on[w] = TimingOut(t) /\ Remove(Fd(t), {Dir(t)}, TRUE)
          /\ UNCHANGED cancelled /\ t \in Waiters /\ w \in Workers
      BY <1>0, <2>3 DEF CancelWait, CancelEvent
    <3>2. t \in cast /\ HasTimer(t) /\ t \in cancelled
      BY <3>1 DEF TimerInv, TimerPart
    <3>3. CASE UNCHANGED ioVars \/ End("bounds") \/ End("assert")
      BY <1>0, <3>3 DEF ioVars, End
    <3>4. CASE Removed(Fd(t), {Dir(t)}, TRUE)
      <4>1. Fd(u) = Fd(t) /\ Dir(u) = Dir(t)
        <5>1. queued'[u] = queued[u] \/ (Fd(u) = Fd(t) /\ Dir(u) \in {Dir(t)})
          BY <1>0, <3>1, <3>4, RemovedWakes
        <5> QED
          BY <1>0, <5>1
      <4>2. t = u
        BY <3>2, <4>1 DEF Shared, HasTimer
      <4> QED
        BY <3>1, <3>2, <4>2
    <3> QED
      BY <1>0, <3>1, <3>3, <3>4, RemoveOutcome
  <2> QED
    BY <1>2, <2>1, <2>2, <2>3 DEF TimerStep, Aside
<1>3. ASSUME NEW w \in crew, IdleStep(w)
      PROVE  u \in cancelled' \/ Reason(u)'
  <2>1. CASE EpollWait(w)
    BY <1>0, <2>1 DEF EpollWait, Fetch
  <2>2. ASSUME NEW e \in fetched[w], HandleEvent(w, e)
        PROVE  Reason(u)'
    <3>1. Handled(w, e) /\ w \in Workers
      BY <1>0, <2>2, HandleOutcome DEF HandleEvent
    <3>2. Fd(u) = e.fd /\ Dir(u) \in RealEvent(e)
      BY <1>0, <3>1, HandledWakes
    <3>3. e.on \cap {Dir(u), "HUP"} # {} /\ e.on \subseteq level[e.fd]
      BY <3>1, <3>2 DEF RealEvent, FreshEvents
    <3>4. IsReady(u)'
      BY <1>0, <3>1, <3>2, <3>3 DEF Handled, IsReady
    <3> QED
      BY <3>4 DEF Reason
  <2> QED
    BY <1>3, <2>1, <2>2 DEF IdleStep
<1>4. ASSUME NEW w \in crew, NEW fd \in Fds, CloseStep(w, fd)
      PROVE  u \in cancelled' \/ Reason(u)'
  <2>1. CASE Close(w, fd)
    <3>1. Remove(fd, Dirs, TRUE) /\ on' = [on EXCEPT ![w] = Closing(fd)] /\ w \in Workers
      BY <1>0, <2>1 DEF Close, CancelAllEvent, Does
    <3>2. CASE UNCHANGED ioVars \/ End("bounds") \/ End("assert")
      BY <1>0, <3>2 DEF ioVars, End
    <3>3. CASE Removed(fd, Dirs, TRUE)
      <4>1. Fd(u) = fd
        <5>1. queued'[u] = queued[u] \/ Fd(u) = fd
          BY <1>0, <3>3, RemovedWakes
        <5> QED
          BY <1>0, <5>1
      <4>2. Closes(w, Fd(u))'
        BY <1>0, <3>1, <4>1 DEF Closes
      <4> QED
        BY <3>1, <4>2 DEF Reason
    <3> QED
      BY <3>1, <3>2, <3>3, RemoveOutcome
  <2>2. CASE ForgetCtx(w, fd) \/ CloseFile(w, fd) \/ Open(w, fd)
    BY <1>0, <2>2 DEF ForgetCtx, CloseFile, Open, KernelClose, KernelOpen, ioVars
  <2> QED
    BY <1>4, <2>1, <2>2 DEF CloseStep
<1>5. CASE Kernel
  BY <1>0, <1>5 DEF Kernel, BecomesReady
<1> QED
  BY <1>0, <1>1, <1>2, <1>3, <1>4, <1>5 DEF Next, Step

LEMMA WhoMoves ==
  ASSUME TypeOK, Next, NEW u \in Waiters
  PROVE  \/ \E w \in crew : u \in cast /\ TaskStep(w, u)
         \/ pc'[u] = pc[u]
<1>0. /\ crew \subseteq Workers /\ cast \subseteq Waiters /\ Busy \subseteq Fds
  BY BusyFacts DEF TypeOK
<1>1. ASSUME NEW w \in crew, NEW t \in cast, TimerStep(w, t) \/ FlagStep(w, t)
      PROVE  pc'[u] = pc[u]
  BY <1>0, <1>1, OtherControl DEF Switch
<1>2. ASSUME NEW w \in crew, IdleStep(w) \/ \E fd \in Fds : CloseStep(w, fd)
      PROVE  pc'[u] = pc[u]
  BY <1>0, <1>2, OtherControl DEF Switch
<1>3. Kernel => pc'[u] = pc[u]
  BY DEF Kernel, hookVars
<1>4. ASSUME NEW w \in crew, NEW t \in cast, t # u, TaskStep(w, t)
      PROVE  pc'[u] = pc[u]
  BY <1>0, <1>4, TaskControl DEF CallStep
<1> QED
  BY <1>0, <1>1, <1>2, <1>3, <1>4 DEF Next, Step

LEMMA CancelledKept ==
  ASSUME TypeOK, Next, NEW u \in Waiters, u \in cancelled, pc'[u] # "idle"
  PROVE  u \in cancelled'
<1>0. /\ crew \subseteq Workers /\ cast \subseteq Waiters /\ Busy \subseteq Fds
      /\ pc \in [Waiters -> Statements]
  BY BusyFacts DEF TypeOK
<1>1. ASSUME NEW w \in crew, NEW t \in cast, TaskStep(w, t)
      PROVE  u \in cancelled'
  <2>1. CASE t # u
    BY <1>1, <2>1, OthersTimers
  <2>2. CASE t = u
    <3>1. ~Return(w, u)
      BY <1>0 DEF Return, Goto
    <3> QED
      BY <1>1, <2>2, <3>1 DEF TaskStep, Start, TrySucceeds, TryBlocks, PassBlocks, ArmTimer,
         TestSize, ResizeContexts, Register, YieldToHold, Resume, TimedOut, TryAgain,
         CheckConnected, Withdraw
  <2> QED
    BY <2>1, <2>2
<1>2. ASSUME NEW w \in crew, NEW t \in cast, TimerStep(w, t)
      PROVE  u \in cancelled'
  BY <1>2 DEF TimerStep, Expire, RunTimeout, CancelWait, EndSleep
<1>3. Kernel => u \in cancelled'
  BY DEF Kernel, hookVars
<1> QED
  BY <1>0, <1>1, <1>2, <1>3, TimersKept DEF Next, Step

(* An entry at a time.                                                     *)
LEMMA QueuedUp ==
  ASSUME TypeOK, ItemInv, WaiterInv, PcInv, Next, NEW u \in Waiters, ~Shared(u),
         queued'[u] # queued[u]
  PROVE  queued'[u] = queued[u] + 1 \/ \E w \in crew : u \in cast /\ Resume(w, u)
<1>0. /\ crew \subseteq Workers /\ cast \subseteq Waiters /\ Busy \subseteq Fds
  BY BusyFacts DEF TypeOK
<1>1. ASSUME NEW w \in crew, NEW t \in cast, TaskStep(w, t)
      PROVE  \E v \in crew : u \in cast /\ Resume(v, u)
  <2>1. t = u
    BY <1>0, <1>1, OthersQueued
  <2>2. CASE Aside(w, u)
    BY <2>2, AsideFacts DEF ioVars
  <2>3. CASE TrySucceeds(w, u) \/ ResizeContexts(w, u) \/ Register(w, u) \/ Withdraw(w, u)
    BY <2>3 DEF TrySucceeds, ResizeContexts, Register, Resize, AddEvent, End, Withdraw,
       DelEvent, Remove, ioVars
  <2> QED
    BY <1>1, <2>1, <2>2, <2>3 DEF TaskStep, Aside
<1>2. ASSUME WakeEffect(u)
      PROVE  queued'[u] = queued[u] + 1
  BY <1>2 DEF WakeEffect
<1>3. \A w : EndSleep(w, u) => queued'[u] = queued[u] + 1
  BY DEF EndSleep, TypeOK, IOTypeOK
<1>4. ~Kernel
  BY DEF Kernel, BecomesReady
<1> QED
  BY <1>0, <1>1, <1>2, <1>3, <1>4, OthersWake DEF Next, Step

LEMMA ReasonStep ==
  ASSUME TypeOK, ItemInv, WaiterInv, WorkerInv, PcInv, WakeInv, TimerInv, Alone,
         FreshEvents, Next, NEW u \in Waiters, ReasonPart(u)
  PROVE  ReasonPart(u)'
<1>0. /\ crew \subseteq Workers /\ cast \subseteq Waiters /\ Busy \subseteq Fds
      /\ fault = "none" /\ (Shared(u)' <=> Shared(u))
      /\ pc \in [Waiters -> Statements] /\ queued \in [Waiters -> Nat]
  BY BusyFacts DEF TypeOK, IOTypeOK, Next, Shared, Fd, Dir
<1> SUFFICES ASSUME Plan[u].kind = "connect", fault' = "none", ~Shared(u)
             PROVE  /\ (Suspending(u)' /\ queued'[u] > 0) \/ pc'[u] = "woken"
                          => u \in cancelled' \/ Reason(u)'
                    /\ pc'[u] = "check" => Reason(u)'
  BY <1>0 DEF ReasonPart
<1>1. ASSUME (Suspending(u) /\ queued[u] > 0) \/ pc[u] = "woken", pc'[u] # "idle"
      PROVE  u \in cancelled' \/ Reason(u)'
  <2>1. pc[u] # "idle" /\ (u \in cancelled \/ Reason(u))
    BY <1>0, <1>1 DEF ReasonPart, Suspending
  <2> QED
    BY <1>1, <2>1, CancelledKept, ReasonKept
<1>2. CASE pc'[u] = pc[u]
  <2>1. ASSUME Suspending(u)', queued'[u] > 0
        PROVE  u \in cancelled' \/ Reason(u)'
    <3>1. Suspending(u) /\ pc[u] # "idle"
      BY <1>2, <2>1 DEF Suspending
    <3>2. CASE queued[u] > 0
      BY <1>1, <1>2, <3>1, <3>2
    <3>3. CASE queued[u] = 0
      <4>1. ~\E w \in crew : u \in cast /\ Resume(w, u)
        BY <1>0, <3>3 DEF Resume
      <4>2. queued'[u] = queued[u] + 1
        BY <2>1, <3>3, <4>1, QueuedUp
      <4> QED
        BY <4>2, WokenForReason
    <3> QED
      BY <1>0, <3>2, <3>3
  <2>2. pc'[u] = "woken" => u \in cancelled' \/ Reason(u)'
    BY <1>1, <1>2
  <2>3. ASSUME pc'[u] = "check"
        PROVE  Reason(u)'
    <3>1. pc[u] # "idle" /\ Reason(u)
      BY <1>0, <1>2, <2>3 DEF ReasonPart
    <3> QED
      BY <2>3, <3>1, ReasonKept
  <2> QED
    BY <2>1, <2>2, <2>3
<1>3. ASSUME NEW w \in crew, u \in cast, TaskStep(w, u)
      PROVE  /\ (Suspending(u)' /\ queued'[u] > 0) \/ pc'[u] = "woken"
                   => u \in cancelled' \/ Reason(u)'
             /\ pc'[u] = "check" => Reason(u)'
  <2>1. CASE Register(w, u)
    <3>1. pc[u] = "lookup" /\ pc'[u] \notin {"woken", "check"} /\ queued' = queued
      BY <1>0, <2>1 DEF Register, At, Goto, AddEvent, End
    <3>2. WakesCall(u)
      BY <1>0 DEF WakeInv
    <3>3. queued'[u] = 0
      BY <3>1, <3>2 DEF WakesCall, Suspending
    <3> QED
      BY <3>1, <3>3
  <2>2. CASE YieldToHold(w, u)
    <3>1. pc[u] = "yield" /\ pc'[u] = "wait" /\ queued' = queued
      BY <1>0, <2>2 DEF YieldToHold, At, Goto, ioVars
    <3> QED
      BY <1>1, <3>1 DEF Suspending
  <2>3. CASE Resume(w, u)
    <3>1. pc[u] = "wait" /\ pc'[u] = "woken" /\ queued[u] > 0
      BY <1>0, <2>3 DEF Resume, Goto
    <3> QED
      BY <1>1, <3>1 DEF Suspending
  <2>4. CASE TryAgain(w, u)
    <3>1. pc[u] = "woken" /\ pc'[u] = "check" /\ u \notin cancelled
      BY <1>0, <2>4 DEF TryAgain, At, Goto
    <3>2. Reason(u)
      BY <1>0, <3>1 DEF ReasonPart
    <3> QED
      BY <3>1, <3>2, ReasonKept DEF Suspending
  <2>5. CASE \/ Start(w, u) \/ TrySucceeds(w, u) \/ TryBlocks(w, u) \/ PassBlocks(w, u)
             \/ ArmTimer(w, u) \/ TestSize(w, u) \/ ResizeContexts(w, u) \/ TimedOut(w, u)
             \/ CheckConnected(w, u) \/ Withdraw(w, u)
    <3>1. pc'[u] \in {"idle", "try", "arm", "add", "resize", "lookup"}
      BY <1>0, <2>5 DEF Start, TrySucceeds, TryBlocks, PassBlocks, ArmTimer, TestSize,
         ResizeContexts, TimedOut, CheckConnected, Withdraw, Return, Goto
    <3> QED
      BY <3>1 DEF Suspending
  <2> QED
    BY <1>3, <2>1, <2>2, <2>3, <2>4, <2>5 DEF TaskStep
<1> QED
  BY <1>2, <1>3, WhoMoves

LEMMA ConnectStep ==
  /\ TypeOK /\ ItemInv /\ WaiterInv /\ WorkerInv /\ PcInv /\ WakeInv /\ TimerInv
  /\ ConnectInv /\ [Next]_vars
  => ConnectInv'
<1> SUFFICES ASSUME TypeOK, ItemInv, WaiterInv, WorkerInv, PcInv, WakeInv, TimerInv,
                    ConnectInv, [Next]_vars, Alone
             PROVE  FreshEvents' /\ \A u \in Waiters : ReasonPart(u)'
  BY DEF ConnectInv, Alone, Next, vars
<1>1. CASE UNCHANGED vars
  BY <1>1 DEF ConnectInv, FreshEvents, ReasonPart, Reason, IsReady, Closes, Suspending,
     Shared, Fd, Dir, vars, ioVars, hookVars
<1>2. CASE Next
  BY <1>2, FreshStep, ReasonStep DEF ConnectInv
<1> QED
  BY <1>1, <1>2

LEMMA TruthStep ==
  TypeOK /\ WorkerInv /\ PcInv /\ ConnectInv /\ ConnectTruthful /\ [Next]_vars
     => ConnectTruthful'
<1> SUFFICES ASSUME TypeOK, WorkerInv, PcInv, ConnectInv, ConnectTruthful, [Next]_vars,
                    Alone, NEW u \in untrue'
             PROVE  Shared(u)
  BY DEF ConnectTruthful, Alone, Next, vars, Shared, Fd, Dir
<1>0. /\ crew \subseteq Workers /\ cast \subseteq Waiters /\ Busy \subseteq Fds
      /\ Fd(u) \in Fds /\ u \in Waiters
  BY BusyFacts, PlanFacts, HookTypeStep DEF TypeOK
<1>1. CASE u \in untrue
  BY <1>1 DEF ConnectTruthful
<1>2. CASE u \notin untrue
  <2>1. PICK w \in crew, t \in cast : CheckConnected(w, t)
    <3>1. CASE UNCHANGED vars
      BY <1>2, <3>1 DEF vars, hookVars
    <3>2. CASE Next
      <4>1. \A w \in crew, t \in cast : TaskStep(w, t) /\ ~CheckConnected(w, t) => untrue' = untrue
        BY DEF TaskStep, Start, TrySucceeds, TryBlocks, PassBlocks, ArmTimer, TestSize,
           ResizeContexts, Register, YieldToHold, Resume, TimedOut, TryAgain, Withdraw
      <4>2. \A w \in crew, t \in cast : TimerStep(w, t) => untrue' = untrue
        BY DEF TimerStep, Expire, RunTimeout, CancelWait, EndSleep
      <4>3. Kernel => untrue' = untrue
        BY DEF Kernel, hookVars
      <4> QED
        BY <1>0, <1>2, <3>2, <4>1, <4>2, <4>3, TimersKept DEF Next, Step
    <3> QED
      BY <3>1, <3>2
  <2>2. /\ t = u /\ on[w] = Executing(u) /\ pc[u] = "check"
        /\ ~IsReady(u) /\ u \notin pulled
    BY <1>2, <2>1 DEF CheckConnected, At
  <2>3. \A v \in Workers : ~Closes(v, Fd(u))
    BY <1>0, <2>2, OneBusy, Activities DEF Closes
  <2>4. ~Reason(u)
    BY <2>2, <2>3 DEF Reason
  <2>5. Plan[u].kind = "connect"
    BY <1>0, <2>2, PlanFacts DEF PcInv, PcPart
  <2>6. fault = "none"
    BY <1>2 DEF Next, vars, hookVars
  <2> QED
    BY <1>0, <2>2, <2>4, <2>5, <2>6 DEF ConnectInv, ReasonPart
<1> QED
  BY <1>1, <1>2

-----------------------------------------------------------------------------
(***************************************************************************)
(* The invariant.                                                          *)
(***************************************************************************)
LEMMA HookInitial == Init => HookInv
<1> SUFFICES ASSUME Init
             PROVE  HookInv
  OBVIOUS
<1>0. /\ cast \subseteq Waiters /\ crew \subseteq Workers
      /\ \A t \in Waiters : pc[t] = "idle" /\ queued[t] = 0
      /\ \A w \in Workers : on[w] = Nothing /\ fetched[w] = {}
      /\ \A fd \in Fds : events[fd] = {} /\ item[fd] = {}
      /\ armed = {} /\ due = {} /\ cancelled = {} /\ untrue = {} /\ fault = "none"
      /\ \A t \in Waiters : Fd(t) \in Fds /\ Dir(t) \in Dirs
  BY HookAssumption, PlanFacts DEF Init, IOInit
<1>1. TypeOK
  <2>1. IOTypeOK
    BY IOAssumption DEF Init, IOInit, IOTypeOK
  <2>2. HookTypeOK
    BY <1>0, Activities DEF Init, HookTypeOK, Statements
  <2> QED
    BY <2>1, <2>2, TypeParts
<1>2. ItemInv /\ WaiterInv
  BY <1>0 DEF ItemInv, WaiterInv
<1>3. WorkerInv
  BY <1>0 DEF WorkerInv, Runs
<1>4. CloseInv
  BY <1>0, Activities DEF CloseInv, Closes, OpenSocketsTracked, Init, IOInit
<1>5. PcInv
  BY <1>0 DEF PcInv, PcPart
<1>6. WakeInv
  BY <1>0 DEF WakeInv, WakesCall, WakesSleep, Registered, Suspending
<1>7. TimerInv
  BY <1>0, Activities DEF TimerInv, TimerPart, Suspending
<1>8. ConnectInv /\ ConnectTruthful
  BY <1>0 DEF ConnectInv, FreshEvents, ReasonPart, Suspending, ConnectTruthful
<1>9. NoEventMissed /\ AssertionsHold
  BY <1>0 DEF NoEventMissed, AssertionsHold, Init, IOInit
<1> QED
  BY <1>1, <1>2, <1>3, <1>4, <1>5, <1>6, <1>7, <1>8, <1>9 DEF HookInv

LEMMA HookStep == HookInv /\ [Next]_vars => HookInv'
<1> SUFFICES ASSUME HookInv, [Next]_vars
             PROVE  HookInv'
  OBVIOUS
<1>1. /\ TypeOK /\ ItemInv /\ WaiterInv /\ WorkerInv /\ CloseInv /\ PcInv
      /\ WakeInv /\ TimerInv /\ ConnectInv
      /\ NoEventMissed /\ AssertionsHold /\ ConnectTruthful
  BY DEF HookInv
<1>2. TypeOK' /\ ItemInv' /\ WaiterInv' /\ WorkerInv' /\ CloseInv' /\ PcInv'
  BY <1>1, HookTypeStep, ItemStep, WaiterStep, WorkerStep, CloseStepInv, PcStep
<1>3. WakeInv' /\ TimerInv' /\ ConnectInv'
  BY <1>1, WakeStep, TimerStepInv, ConnectStep
<1>4. NoEventMissed' /\ AssertionsHold' /\ ConnectTruthful'
  BY <1>1, MissedStep, AssertionStep, TruthStep
<1> QED
  BY <1>2, <1>3, <1>4 DEF HookInv

(* HookInv holds in every reachable state.                                 *)
THEOREM HookInvariant == Spec => []HookInv
  BY HookInitial, HookStep, PTL DEF Spec

(* Registrations, epoll items, calls, timers and descriptors have their    *)
(* types: no operation leaves a mask or a statement no code puts there.    *)
THEOREM HookTypes == Spec => []TypeOK
<1>1. HookInv => TypeOK
  BY DEF HookInv
<1> QED
  BY <1>1, HookInvariant, PTL

(* FdContext::events and the mask the kernel has agree for every open      *)
(* descriptor no close() raced (iomanager.cpp: addEvent, delEvent,         *)
(* cancelEvent, cancelAllEvent and idleFun choose ADD, MOD or DEL by it).  *)
THEOREM ItemFollowsContext == Spec => []RegistrationAgrees
<1>1. HookInv => RegistrationAgrees
  BY DEF HookInv, TypeOK, IOTypeOK, ItemInv, RegistrationAgrees
<1> QED
  BY <1>1, HookInvariant, PTL

(* An edge for a registered direction is on the ready list or in the hands *)
(* of a thread in idleFun until the registration goes.                     *)
THEOREM EdgesAreNotMissed == Spec => []NoEventMissed
<1>1. HookInv => NoEventMissed
  BY DEF HookInv
<1> QED
  BY <1>1, HookInvariant, PTL

(* The assertions on epoll_ctl and on the waiter fail only after a close() *)
(* under a call; the vector of contexts is read past its end only for a    *)
(* descriptor equal to its size; one worker never makes it smaller.        *)
THEOREM AssertionsDoNotFail == Spec => []AssertionsHold
<1>1. HookInv => AssertionsHold
  BY DEF HookInv
<1> QED
  BY <1>1, HookInvariant, PTL

(* An open socket has its FdCtx and is nonblocking in the kernel, with the *)
(* exceptions FdManager and the hooked fcntl and ioctl leave.              *)
THEOREM SocketsStayNonblocking == Spec => []OpenSocketsTracked
<1>1. HookInv => OpenSocketsTracked
  BY DEF HookInv, CloseInv
<1> QED
  BY <1>1, HookInvariant, PTL

(* With one worker connect_with_timeout reports no connection that is not  *)
(* there.                                                                  *)
THEOREM ConnectTellsTheTruth == Spec => []ConnectTruthful
<1>1. HookInv => ConnectTruthful
  BY DEF HookInv
<1> QED
  BY <1>1, HookInvariant, PTL

LEMMA RegistrationsAre ==
  ASSUME TypeOK, WaiterInv, NEW t \in Waiters
  PROVE  Registrations(t) = IF Registered(t) THEN {<<Fd(t), Dir(t)>>} ELSE {}
<1>0. Fd(t) \in Fds /\ Dir(t) \in Dirs
  BY PlanFacts
<1>1. \A fd \in Fds, d \in Dirs :
         d \in events[fd] /\ waiter[fd][d] = t <=> fd = Fd(t) /\ d = Dir(t) /\ Registered(t)
  BY DEF WaiterInv, Registered
<1>2. \A r \in Fds \X Dirs : r = <<r[1], r[2]>> /\ r[1] \in Fds /\ r[2] \in Dirs
  OBVIOUS
<1>3. <<Fd(t), Dir(t)>> \in Fds \X Dirs
  BY <1>0
<1>4. \A r \in Registrations(t) : r = <<Fd(t), Dir(t)>> /\ Registered(t)
  BY <1>1, <1>2 DEF Registrations
<1>5. Registered(t) => <<Fd(t), Dir(t)>> \in Registrations(t)
  BY <1>0, <1>3 DEF Registrations, Registered
<1> QED
  BY <1>4, <1>5

(* Every wait has exactly one wake-up coming: the registration, the timer  *)
(* of a sleep or the entry in m_fibers; cancelEvent of a time-out, idleFun *)
(* and close() never give it a second one and never take the only one.     *)
THEOREM WaitsHaveOneWakeup == Spec => []OneWakeupPerWait
<1>1. ASSUME HookInv
      PROVE  OneWakeupPerWait
  <2>1. SUFFICES ASSUME NEW t \in Waiters, ~Shared(t), fault = "none"
                 PROVE  Wakeups(t) = IF Suspending(t) THEN 1 ELSE 0
    BY DEF OneWakeupPerWait
  <2>2. /\ TypeOK /\ WaiterInv /\ WakeInv /\ queued[t] \in Nat
    BY <1>1 DEF HookInv, TypeOK, IOTypeOK
  <2>3. \A S : S = {} => Cardinality(S) = 0
    BY FS_EmptySet
  <2>4. \A x : Cardinality({x}) = 1
    BY FS_Singleton
  <2>5. CASE Plan[t].kind = "sleep"
    <3>1. WakesSleep(t)
      BY <2>2, <2>5 DEF WakeInv
    <3>2. \A A : t \in A => {t} \cap A = {t}
      OBVIOUS
    <3>3. \A A : t \notin A => {t} \cap A = {}
      OBVIOUS
    <3>4. /\ Cardinality({t} \cap armed) = IF t \in armed THEN 1 ELSE 0
          /\ Cardinality({t} \cap due) = IF t \in due THEN 1 ELSE 0
      BY <2>3, <2>4, <3>2, <3>3
    <3>5. Wakeups(t) = queued[t] + (Cardinality({t} \cap armed) + Cardinality({t} \cap due))
      BY <2>5 DEF Wakeups
    <3> QED
      BY <2>2, <3>1, <3>4, <3>5 DEF WakesSleep
  <2>6. CASE Plan[t].kind # "sleep"
    <3>1. WakesCall(t)
      BY <2>1, <2>2, <2>6 DEF WakeInv
    <3>2. Registrations(t) = IF Registered(t) THEN {<<Fd(t), Dir(t)>>} ELSE {}
      BY <2>2, RegistrationsAre
    <3>3. Cardinality(Registrations(t)) = IF Registered(t) THEN 1 ELSE 0
      BY <2>3, <2>4, <3>2
    <3>4. Wakeups(t) = queued[t] + Cardinality(Registrations(t))
      BY <2>6 DEF Wakeups
    <3> QED
      BY <2>2, <3>1, <3>3, <3>4 DEF WakesCall
  <2> QED
    BY <2>5, <2>6
<1> QED
  BY <1>1, HookInvariant, PTL

(* A suspended call with a timeout has its timer, the timer's callback or  *)
(* a wake-up coming, but for the case the code leaves open: the timer that *)
(* fires on a second worker between addTimer and addEvent (hook.cpp:       *)
(* do_io, connect_with_timeout).                                           *)
THEOREM TimeoutsReachTheirCalls == Spec => []TimedWaitsGuarded
<1>1. ASSUME HookInv
      PROVE  TimedWaitsGuarded
  <2>1. SUFFICES ASSUME NEW t \in Waiters, Plan[t].timed, Suspending(t)
                 PROVE  t \in armed \cup due \/ Guarded(t)
    BY DEF TimedWaitsGuarded, Guarded
  <2>2. /\ PcPart(t) /\ TimerPart(t) /\ WakeInv
    BY <1>1 DEF HookInv, PcInv, TimerInv
  <2>3. CASE Plan[t].kind = "sleep"
    <3>1. WakesSleep(t)
      BY <2>2, <2>3 DEF WakeInv
    <3> QED
      BY <2>1, <3>1 DEF WakesSleep, Guarded
  <2>4. CASE HasTimer(t)
    BY <2>1, <2>2, <2>4 DEF TimerPart, Suspending
  <2>5. Plan[t].kind = "sleep" \/ HasTimer(t)
    BY <2>1, <2>2, PlanFacts DEF PcPart, HasTimer, Suspending
  <2> QED
    BY <2>3, <2>4, <2>5
<1> QED
  BY <1>1, HookInvariant, PTL
================================================================================
