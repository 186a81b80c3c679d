# seaice: models, checks and proofs

seaice is a C++11 server framework: fibers, a scheduler that runs them on worker
threads, an epoll-based I/O manager with timers, hooked system calls that suspend
the calling fiber, and servers and clients (TCP, HTTP, WebSocket, the "rock"
request/response protocol) on top. This directory holds TLA+ models of it, the
TLC configurations that check them, and proofs for TLAPS.

`PROJECT.json` maps every definition to the lines it models. It also lists the
components, the runs, a mutant per checked property, the findings, the hazards
and the theorems.

    tlc -config parts.cfg MCParts        # a run
    tlapm SchedulerTasks_proofs.tla      # proofs; the same for each *_proofs module

## 1. Inventory

| component | state | operations | interacts through | what is hard | what makes it correct |
|---|---|---|---|---|---|
| **Fiber** (`fiber.cpp`) | `m_state`, `m_ctx`, `m_cb`, the stack; thread-local current and main fiber | constructor, `reset`, `swapIn`, `swapOut`, `run`, `yieldToHold`, `yieldToReady` | called by `mainFun` and by the task | the state is published before the context is saved | a fiber is executed by one thread at a time, and resumes where it yielded |
| **Scheduler** (`scheduler.cpp`) | `m_fibers` under a mutex, `m_stop`; per thread `ft`, `cb_fiber`, `need_tick` | `start`, `schedule`, `mainFun`, `idleFun`, `stop` | the list `m_fibers`; virtual `tick`, `idleFun`, `isStoping` | wake-ups that come while the fiber still runs; reuse of `cb_fiber`; stop against schedule | every task entered once, no wake-up lost or doubled, nothing of an ended task executed, stop drains |
| **FiberSemaphore** (`mutex.cpp`) | `m_num`, `m_list` under a spin lock | `wait`, `tryWait`, `notify` | `schedule` of the waiting fiber | `notify` between the end of the locked block and the yield | permits conserved, first in first out, nobody forgotten |
| **WorkerGroup** (`worker.cpp`) | a semaphore, `m_finish`, `m_batchSize` | `shcedule`, `doWork`, `waitAll` | FiberSemaphore, Scheduler | a callback that throws, two callers of `waitAll` | `waitAll` returns, and not before all is done |
| **TimerManager** (`timer.cpp`) | `m_timerSet` under a mutex, the probe `m_timer`; per timer time, callback, flags | `addTimer`, `delTimer`, `cancel`, `refresh`, `getRecentTimerout`, `listTimeroutCallback` | `tick` of IOManager under the lock; `schedule` of callbacks | members read and written without the lock; int arithmetic; the pipe | never early, late by one sleep at most, one-shots fire once, what was deleted stays out |
| **IOManager** (`iomanager.cpp`) | an `FdContext` per descriptor in a vector that grows, the epoll set, the tick pipe | `addEvent`, `delEvent`, `cancelEvent`, `cancelAllEvent`, `triggerEvent`, `idleFun`, `tick` | epoll, Scheduler, TimerManager | old events against cancels and new registrations, edge-triggered items, the resize, the tick | every wait has one wake-up; registration and epoll item agree; no edge is missed |
| **Hooks, FdManager** (`hook.cpp`, `fd_manager.cpp`) | an `FdCtx` per descriptor; a `timer_info` per call | `do_io`, `connect_with_timeout`, `sleep`, `usleep`, `socket`, `accept`, `close`, `fcntl`, `ioctl` | IOManager, TimerManager, `errno` | timeout against event against retry; descriptors closed and opened again | each wait of a call with a timeout ends; a connection reported is there; sockets stay nonblocking |
| **AsyncSocketStream, RockStream** | `m_list_ctxs`, the map sn -> context, a semaphore | `request`, `sendMessage`, `enqueue`, `runWrite`, `runRead`, `doRecv`, `delCtx` | FiberSemaphore, Scheduler, the peer | many producers and one writer; an answer against the registration | sent in order, an answer finds its request, the queue is served |
| **Rock protocol** (`rock_protocol.cpp`) | a header with flags | `serializeTo`, `parseFrom` | RockStream | whether both ends agree what is compressed | what was sent is understood |
| **TcpServer** (`tcpserver.cpp`) | the sockets, `m_isStop` | `bind`, `start`, `stop`, `startAccept` | two schedulers, hooked `accept`, `cancelAll`, `close` | `m_isStop` and the sockets are shared without a lock; `close` is three steps | the accept loops of a stopped server end |
| **HTTP connection pool** (`http_connection.cpp`) | list of idle connections, a total | `getConnection`, `doRequest`, `ReleasePtr` | deleters of shared pointers, the server | a response left unread on a connection that is used again | an answer is that of its request |
| **HTTP sessions and server** | the socket | `recvRequest`, `sendResponse`, `handleClient` | the client | keep-alive | requests are answered in order |
| **WebSocket** (`ws_session.cpp`) | the frame that is read | `WSSendMessage`, `WSRecvMessage`, ping, pong | the socket | frames written in several calls; masks in place | delivered as sent |
| **Caches** (`ds/`) | an index, a list, a set by time | `get`, `set`, `del`, `prune`, `checkTimeout`, `clear` | a mutex | the three must agree | the index is a map with expiry |
| **ByteArray** (`bytearray.cpp`) | chain of nodes, `m_cur`, `m_pos`, `m_size` | reads, writes, `setPos`, `setSize`, `clear`, iovecs, `writeToFile` | streams | boundaries of nodes, widths | what was written is read back |
| **Configuration** (`config2.h`, `config2.cpp`) | the value, listeners, times of files | `setValue`, `addListener`, `LoadFromConfDir` | callbacks | notify and assign under different locks; a file that changes | listeners know the value; the file counts |

Not modelled at all: WorkerManager, HTTP messages with their parsers and servlets,
modules, libraries and the application, the daemon, the log, thread wrappers,
addresses, URIs, hashes and compression (section 7).

How they stack up: a task is a fiber or a callback in `m_fibers`. It leaves the
worker by yielding to HOLD after it has told somebody - a semaphore, an `FdContext`, a
timer - to `schedule` it again. A worker without a task runs
`IOManager::idleFun`, which sleeps in `epoll_wait`, schedules the callbacks of timers that
are due, and triggers the waiters of descriptors. Hooked calls combine the two: a
timer whose callback cancels the registration of the descriptor. Everything above
(streams, servers, pools) is written as if calls blocked.

## 2. The modules

| module | models |
|---|---|
| `Scheduler` | the state and the actions of `mainFun` and of the fiber primitives; no `Next` of its own |
| `SchedulerTasks` | a Scheduler with tasks: submit, park, yield, end, `stop()`; the properties of the scheduler |
| `TaskLifecycle` | abstract: the life of a task, without threads, list and fibers |
| `FiberSemaphore` | the semaphore, and tasks on a Scheduler that use it |
| `CountingSemaphore` | abstract: permits and a queue |
| `TimerManager` | timers, the rounds of `idleFun` that run them, the tick pipe |
| `IOEvents` | `FdContext` and epoll: add, delete, cancel, resize, handle an event |
| `HookIO` | hooked calls, FdManager and the timers of calls on top of `IOEvents` |
| `WorkerGroup` | `shcedule`, `doWork`, `waitAll` over a counting semaphore |
| `RockStream` | the two fibers of a stream, its callers and the peer |
| `TcpServer` | start, stop, the closure of stop, accept loops |
| `HttpPool` | the pool, its connections and the sessions at their other ends |
| `WebSocket` | frames in both roles, written in pieces |
| `TimedCaches` | `TimedLruCache` and `TimeCache` |
| `ExpiringMap` | abstract: a map whose entries have a time |
| `ByteArray` | the chain of nodes, and the encodings of numbers and strings |
| `Config` | a variable, its listeners and the file that sets it |
| `SchedulerInvariant`, `TimerInvariant` | inductive invariants |
| `Scheduler_proofs` | lemmas on `schedule()`, the scan and the switch, used by the next two |
| `SchedulerTasks_proofs`, `FiberSemaphore_proofs`, `TimerManager_proofs`, `HookIO_proofs`, `Services_proofs` (of `RockStream`, `WorkerGroup` and `TcpServer`), `Http_proofs` (of `HttpPool` and `WebSocket`), `Stores_proofs` (of `Config`, `TimedCaches` and `ByteArray`) | inductive invariants where they are not in a module above, and the theorems |
| `MC...` | instances for TLC |

What composes what: `SchedulerTasks` and `FiberSemaphore` extend `Scheduler`; `HookIO`
extends `IOEvents`; `MCParts` extends the components it puts side by side; `RockStream` and `WorkerGroup` use the semaphore as the
counting semaphore that `FiberSemaphore` is shown to implement, and `TcpServer` the
suspension in `accept` that `HookIO` models.

**Scheduler.** Each worker thread has a place `pc` in `mainFun`: `scan` (look
for an entry under the lock), `take` (holds it), `fiber` (executes a task),
`swapOut` and `exit` (the task set its state and has not left its stack), `back`
(`swapIn` returned), `idle`, `done`. The locked sections of the code are single
steps. A context switch is two steps, because that is what the code does:
`yieldToHold` assigns `m_state` (`fiber.cpp:202`), and `swapcontext` saves
`m_ctx` later (`:87`). The saved context is the statement the fiber resumes at
(`ctx`), so resuming a fiber whose context is stale is visible. Modules that
extend `Scheduler` supply the statements of their tasks through `at`.

A thread that resumes a fiber another thread still executes on shares a stack
with it: undefined behaviour. The history variable `clash` becomes TRUE then,
and nearly all properties say nothing after it. That it can happen is a finding
(`sem_restart`), not an assumption: the runs do not exclude it.

The idle fiber is one step, a round of `Scheduler::idleFun`. A worker that finds
only entries it must step over scans again, which changes nothing, so this is
no step of the model.

**SchedulerTasks.** A task is a callback or a fiber, submitted once, pinned or
not, and plain, parking or "ready" (it calls `yieldToReady` without having
registered, as `foo` of `test/testScheduler.cpp`). A parking task registers with
a source of wake-ups (`waiting`) and then yields. The source may fire at any
moment from then on.

**FiberSemaphore.** `wait` and `notify` are one step each up to the end of
their spin-locked block, and the yield of `wait` is a step of its own. Roles:
users wait, work and notify (WorkerGroup), consumers only wait and producers
only notify (the write queue of AsyncSocketStream), a trier calls `tryWait`. Work
may suspend the fiber once.

**TimerManager.** `listTimeroutCallback` is split where another thread can
come between: reading the clock, writing the shared probe, the two locked
sections, and per timer the test of `m_cancel`, the copy of `m_cb`, the test of
`m_cycle` with `refresh`, and `addTimer`. `cancel` is its three assignments.
`addTimer` holds the lock over the write to the pipe, a step of its own as
it may block. The clock is a variable in milliseconds that `Advance` increments, and `delayed`
remembers whether it did so while somebody had a step to take or stood before the write to the pipe.

**IOEvents.** An operation on a descriptor is one step under the mutex of its
`FdContext`: it reads `events`, calls `epoll_ctl`, triggers waiters. Epoll is
explicit: the registered mask `item`, the ready list `listed` and what each worker
has `fetched` and not yet handled, so a worker may act on an event that is out
of date. `level` is the state of the descriptor, which ADD and MOD look at.
Reading the vector past its end, shrinking it over a context in use and a failed
assertion set `fault`, which ends the behaviour.

**HookIO.** A waiter goes through the statements of `do_io` one by one (`try`, `arm`,
`add`, `resize`, `lookup`, `yield`, `wait`, `woken`), and each worker executes one thing at a time:
a fiber up to its yield, the callback of a timer, a round of `idleFun`. `close` is three
steps (`cancelAllEvent`, `FdManager::del`, `close_f`), between which a `socket()` may get
the number. `connect_with_timeout` ends with the test of `SO_ERROR`. A sleep waits for
its timer alone. `fcntl` and `ioctl` change `userNonBlock` and `blocking`, the flag of the
`FdCtx` and the mode in the kernel; a call on a descriptor that blocks in the kernel
holds its worker. Time is abstract: an armed timer may expire at any moment.

**WorkerGroup, TcpServer, RockStream, HttpPool, WebSocket, Config** have a variable per
actor for the statement it has reached, and a step per stretch of code between two
points where others may come in: a suspension or an unlock. Where the code leaves the
region its author had in mind (a connection closed under a caller, two closures at a
time, calls that overlap) a history variable remembers it, and the property names it. In
`TcpServer` the steps are finer: a loop goes through the statements of `startAccept` and
`do_io`, and the closure through `cancelAll` and the three steps of `close`; `alone` chooses
between a scheduler with one thread and one with several.

**TimedCaches, ByteArray** are sequential: a step is a call, under the mutex of the
cache, in any order of calls. `TimedCaches` keeps list, index and set apart as the code
does; `ByteArray` keeps `m_cur` and `m_pos` apart, which some sequences of calls leave in
different nodes.

## 3. Runs

| run | instance | shows |
|---|---|---|
| `sched_park1` | 1 thread, tasks that park twice, fair | implements `TaskLifecycle`; entered tasks end; no task starves; `stop()` returns |
| `sched_park2` | 2 threads, two tasks that park twice and one that yields to READY | one wake-up per suspension, none lost, no assertion fails, every step is one of `TaskLifecycle` - up to a clash |
| `sem_one_thread` | 1 thread, 2 users, a consumer and a producer, 1 permit, fair | implements `CountingSemaphore`; every waiter gets a permit |
| `sem_two_threads` | 2 threads, a trier, 2 users, 1 permit | nobody forgotten, steps of `CountingSemaphore` |
| `timers` | 2 threads, 2 timers, in two settings | one keeper, never early, deleted stays out; late by one sleep at most unless somebody is delayed |
| `parts` | `HookIO`, `RockStream`, `HttpPool`, `TimedCaches`, `ByteArray`, `WebSocket`, `Config` | the safety of each |
| `live` | `SchedulerTasks`, `HookIO`, `RockStream`, `WorkerGroup`, `TcpServer`, fair | what must eventually happen in each |
| `sem_restart` | violation | a wake-up between `m_state = HOLD` and `swapcontext`: the other thread enters the callback again |
| `timer_null` | violation | a null callback is scheduled |
| `timer_sleep` | violation | a timer added while the worker sleeps is late |
| `timer_pipe` | violation | a full pipe stops all timers |
| `rock_request` | violation | a request does not return although its answer has come |

**One instance for several parts.** `MCParts` and `MCLive` put components side by side that
share no variable. A behaviour is one of one part, chosen at the start; the other
parts stay in an initial state. This is one run per question - safety, liveness -
and checks exactly what a run per component would. `MCTimers` chooses between two
settings of the constants of `TimerManager` in the same way.

**What `parts` shows, part by part.**

* Hooked calls, with one and with two workers and the ensembles of `MCHookIO`: a reader with a
  timeout and a writer on one socket; that writer and a callback for the same event that its owner may
  withdraw; a reader that calls twice, with a fiber that changes the socket's flags; a
  `connect` beyond the initial vector; callbacks on descriptors equal to its size; a
  sleeper. `RegistrationAgrees`, `NoEventMissed` and `OneWakeupPerWait` say that
  the bookkeeping by hand of edge-triggered events works for every interleaving of adds,
  cancels, stale events, timeouts and closes - except that a `close()` between another
  fiber's EAGAIN and its `addEvent`, or a registration between `cancelAllEvent` and
  `close_f`, leaves an item behind. `TimedWaitsGuarded`: a timer that fires between
  `addTimer` and `addEvent` cancels nothing, and the wait goes on without one; this takes a second
  worker. `ConnectTruthful`: with two workers an event of the number's last owner can
  wake a `connect`, whose `SO_ERROR` is 0 while it is still being made. `AssertionsHold`
  says which out-of-range reads and shrinking resizes happen: with one worker nobody
  who waits is lost. `OpenSocketsTracked`: `close()` drops the `FdCtx` before the
  number is free; `ioctl(FIONBIO)` with 0 makes the kernel block, unlike `fcntl`.
* `RockStream`: messages go out in the order of `enqueue`; the answer to a request always
  finds its context. A response to no request, or a frame of no known type, uses an
  invalid iterator or an uninitialized pointer (`crashed`).
* `HttpPool`: no response is taken for that of another request, since a connection whose
  request failed is not used again, and what is left of a chunked response spoils the
  next request instead of answering it.
* `TimedCaches`: `TimedLruCache` implements `ExpiringMap` (`LruImplementsMap`); `TimeCache` keeps a stale
  item for a key that is set again, whose expiry takes the new entry with it - for all
  other keys nothing goes early (`EntriesExpire`).
* `ByteArray`: the bytes and the position are those of a plain array for all sequences of
  calls that do not write before the end or exactly to the end of a node with another
  behind it; `writeToFile` takes what is unread only if it starts or fills a node.
  `NumbersReturn` tells which encodings lose: floats are written with a fixed width and
  read as varints, 64-bit varints lose their upper half, lengths of strings are narrowed.
* `WebSocket`: delivered as sent, unless a client sends the same message object twice; the
  session survives all well-formed frames but empty ones and frames torn by a pong.
* `Config`: listeners were told the value when calls do not overlap; a file noted as
  loaded was, unless it changed twice in a second, did not parse, or calls overlapped.

**What `live` shows.** A pinned task and one that yields READY, submitted before `stop()`, are
entered. Each wait of a hooked call with a timeout ends, and the call returns unless it is
woken for nothing time and again: `do_io` cancels the timer and arms a new one with the full
timeout at each retry, so that the timeout bounds a wait and not the call
(`TimedCallsReturn`). A sleep returns. A waiter whose descriptor is ready is resumed without
relying on its timer (one worker: with two, see `TimedWaitsGuarded`). The list of a stream is
served; `waitAll` returns, and only when nothing of the group runs, unless a callback threw
or a second caller took permits.

Of `TcpServer` it shows that the sockets of a server stopped for good are closed, and its
accept loops end wherever `stop()` finds them, unless the server was started again before
the closure of `stop` had run. With one thread in `m_acceptWorker` this is so without
exception. With several, a loop that `cancelAllEvent` resumes may look for a connection
again inside `do_io`, find none and register before `close_f`, which resumes nobody: such a
loop is `stranded`. A socket that is closed between EAGAIN and `addEvent` makes an
assertion fail, and two closures at a time may iterate over a vector that one of
them clears (`broken`).

**Bounds, and why they are enough.**

* Two threads or workers and two fibers let one act between any two steps of
  another, and a fiber be used again. Parking twice gives a second yield, whose saved
  context is stale in another way than the first one's. One permit with three tasks makes tasks queue.
* `timers`: in the free setting the clock reaches 2 with periods and sleeps of 1, so a timer
  is due, fires, is added again and is due again; `PipeSize` 2 makes the pipe fill up. In
  the punctual one (`Late`) time passes only when no thread can step, `IntMax` 3 and a delay of 4 make the
  time left overflow an int, and `PipeSize` 20 is more than is ever written. `Low`
  says which timers compare below the probe at equal times (`TimerCmp` goes on to
  compare addresses).
* `parts`: descriptors 96 and 144 are the initial size of the vector and the size after
  one resize, 100 lies between and 5 below. Two calls of a waiter are needed for a timeout
  of the first to meet the second. A `ByteArray` of nodes of 2 bytes and 5 bytes in all
  has every position relative to a boundary; integers of 8 bits in groups of 3 stand for
  64 in groups of 7. Two keys more than the caches hold make `prune` remove several.
  Three requests on two connections reuse one and leave one over; `MaxRequest` 3 makes one retire.
  Two frames make a joined message or two messages.
* `live` has one worker for hooked calls, as its two properties are about one; three
  jobs on two permits; one listening socket, as a loop and the steps of a `close()` are of one
  each, and two starts, the second before or after the closure has ended, with one thread
  and with several.

`parts` uses the symmetry of the workers, `timers` and `sched_park2` that of the threads, which no
definition distinguishes; they check no liveness. `CHECK_DEADLOCK FALSE` is in every
configuration: after `stop()`, when all tasks have ended or calls are used up, when an assertion
has failed (the process aborts), or when the clock is at its bound, the system does
stop.

**Fairness.** `WF` on every step of a worker thread: the operating system runs
it. `WF` on the sources of wake-ups: what was registered comes. `SF` where a free worker picks one
of several things: an entry of `m_fibers` is taken in the end, since the list is
scanned from the front (`RunnableTasksRun` of `sched_park1` shows that no task
starves), and `idleFun` runs whenever the list is empty; `SF` on taking a permit, which the
semaphore hands out in order (`WaitersGetPermits`). The timer of a wait expires unless it is
cancelled first (`Disarm`, `SF` as a worker must be free for it); no fairness joins the
timers of successive retries. In `TcpServer` a loop or a closure that runs goes on (`WF`), and a
thread that is free takes each entry and looks at each socket in the end (`SF`). There is no fairness on submitting,
closing, connecting, stopping or on the kernel making a descriptor ready. In `live` a condition on a
disjunction of actions, one of each part, is a condition on each of them, as the
other parts have nothing to do. The timer runs are safety only; lateness is
measured against the clock: `NotLate` claims nothing once the clock has advanced while
a thread had something to do (`delayed`), and `Prompt` keeps a run from going there.

## 4. Proofs

Everything here is proved for all values of the constants, under named assumptions
that say no more than that null values are no members, that tables like `Plan`, `Role`
or `Kind` have the right type, that a size is a number or not 0, that half an integer is whole
bytes, that idleFun's sleep fits an int and somebody runs the timers (`NotLate` alone), and, where
something is counted, that a set is finite. No theorem assumes anything of the initial state or of the schedule. Where
`clash`, `fault`, `raced` and the like appear in an invariant, they are the histories the
checked property names too.

| module | theorems (property of a run) | also proved |
|---|---|---|
| `SchedulerTasks_proofs` | `OneWakeup`, `NoLostWakeup`, `NoAssertionFails`, `StepsOfLifecycle`; `ImplementsLifecycle` with one thread | types, `EnteredOnce`, `NothingAfterEnd` |
| `FiberSemaphore_proofs` | `NoFiberForgotten`, `StepsOfSemaphore`; `ImplementsSemaphore` with one thread | types, `PermitsConserved`, `NoIdlePermit`, `ListedAreParked` |
| `TimerManager_proofs` | `OneKeeper`, `NeverEarly`, `DeletedStaysOut`, `NotLate` | types, `OneShotFiresOnce`, `KeysStable`, `PeriodKept` |
| `HookIO_proofs` | `RegistrationAgrees`, `NoEventMissed`, `OneWakeupPerWait`, `TimedWaitsGuarded`, `AssertionsHold`, `ConnectTruthful`, `OpenSocketsTracked` | types |
| `Services_proofs` | `SentInOrder`, `RepliesFindRequest`; the safety parts of `WaitAllReturns` (`WaitAllWaits`) and `AcceptLoopsEnd` (`StopCloses`) | types, where permits and sockets are |
| `Http_proofs` | `AnswersMatch`, `DeliveredAsSent`, `SessionSurvives` | types, one owner per connection |
| `Stores_proofs` | `ListenersFollow`, `LoadedFileCounts`, `EntriesExpire`, `LruImplementsMap`, `BytesKept`, `NumbersReturn` | types, a bound on the size of a `TimeCache` |

**SchedulerTasks.** None of the properties is inductive. `NoLostWakeup` needs to know
that a fiber about to yield has registered; `EnteredOnce` needs that a task waits in
only one place (a callback entry, a thread's hands, a new fiber) and that a fiber
which resumes does so after its yield; the assertion on `cb_fiber` needs that no other
thread uses it. `IInv` of `SchedulerInvariant` puts this together, one named conjunct
per idea:

* `QueueOK`, `HeldOK`: entries are a fiber or a callback, no two the same;
* `StacksOK`: the state of a fiber goes with the place of the one thread on it;
* `CbFibersOK`: a `cb_fiber` has one owner, and has ended when it is idle;
* `WakeupsOK`: at most one wake-up, and exactly one between registration and resume;
* `ContextsOK`: a suspended fiber off its stack resumes after its yield;
* `TasksOK`: a task not entered waits in one place, an entered one has one fiber.

The types are inductive only with `LoadedOK` (what is listed or executed has a
callback). Everything else is claimed only before a clash; after it, `TypeInv`
alone is carried on. There is one lemma per action (or per group that moves a
fiber in the same way) and `InvariantStep` combines them.

**Refinement of TaskLifecycle.** `StatusOf` maps a task to its status, by where its fiber
or its callback is. One lemma per group of actions says which status changes
(`Turns(c, from, to)`) and that no other one does. What is left is that a task may only start
to run if fewer run than there are threads: `ExecOK` (a fiber in `EXEC` has a thread
on it) gives an injection from the running tasks into the threads other than the one
that is about to run one (`RoomToRun`, which is where `Threads` must be finite). With
several threads the result is the step theorem `StepsOfLifecycle`, up to a clash; a clash
takes two threads (`NoClashAlone`), so one thread gives the refinement itself.

**FiberSemaphore.** `SemInv` is the scheduler's invariant for tasks that wait on a
semaphore, plus `ListOK` (a fiber is in `m_list` once), `FibersOK` (what is suspended is
listed, asleep, queued or taken, and only one of them; what is listed stands before the yield or
has yielded) and `NoIdlePermit`. It is not the one of `SchedulerTasks` with other names, as the
source of wake-ups is another fiber: that `notify` finds in `m_list` only fibers whose
`schedule()` is due is the point. Every step is then nothing to the abstract semaphore, or
one of five moves of one fiber (`Takes`, `Queues`, `Uses`, `Gives`, `Makes`); from these both
`StepsOfSemaphore` and `PermitsConserved` follow. `NoPermitLiesIdle` holds even after a clash.

**TimerManager.** Nothing is assumed about the clock but that it does not go back. The
invariant is `IInv` of `TimerInvariant`:

* `HandsOK`: a thread has timers in hand only inside the loop over `vec`, and adds
  again only cyclic ones;
* `FreshOK`: a timer nobody has added is nowhere and has not fired;
* `CycleOK`, `DeletedOK`: `m_cycle` is never set again, and a timer that was deleted
  is cancelled, which is why `addTimer` rejects it in whoever's hand it is;
* `ClockOK`: whichever thread's time is in the shared `m_timer`, it is not ahead of
  the clock - this is why overwriting it does no harm;
* `DueOK`, `FiredOK`: what is in hand was due, and what will fire again is cyclic
  and not due before its period is over.

`OneKeeper` makes the parts fit: because a timer is in one place, `refresh` changes
the key of no member of the set, and a one-shot that is dropped is gone.

`TimersNotLate` needs a thread and a `MaxSleep` that fits an int, and nothing of the pipe, the
delays of timers or the order of their addresses. `PunctualInv` adds to `IInv`, until somebody is `delayed`:
a thread reads the clock, writes the probe and takes what is due within one millisecond
(`MomentOK`); one that has looked left nothing behind (`LookedOK`); no thread sleeps longer than
`MaxSleep` past the time of a timer in the set, though the difference is narrowed to an int
(`SleepOK`). All of it was first checked by TLC on two punctual instances.

**HookIO.** `HookInv` is one induction for all properties, as they need each other:

* `ItemInv`: `events` and `item` agree on every descriptor not `raced`, and what is not open has
  neither; contexts lie inside the vector;
* `WaiterInv`: what is registered is a call of the ensemble that waits for that direction;
* `WorkerInv`, `CloseInv`, `PcInv`: each worker does one thing, one worker closes a descriptor, and
  each statement knows what it has established of the descriptor and the vector;
* `WakeInv`: the wake-up of a suspended call is its registration or its entry, never both;
* `TimerInv`: a timer is armed before the registration, so from `yield` on a timer that came first
  left `cancelled`, its callback, or a wake-up - with one worker, which cannot run the callback before
  the yield; with more, `early` records it;
* `ConnectInv`: with one worker an event in hand still holds, so a `connect` that is woken is woken for a
  reason.

`RegistrationAgrees` is the heart: every other part rests on `events` and epoll saying the same,
and it holds because each operation changes both under the lock of the context. The
properties carry the exceptions of section 3.

**RockStream.** `OrderInv` keeps `sent`, the batch in hand and the list together equal to what
was enqueued; `PlaceInv` says that a message is in one of the three at most; `PendingInv` that a
request has its context from `addCtx` until the peer has read it; `InboxInv` that there is one
response on the way for it at most. `RepliesFindRequest` follows.

**WorkerGroup.** That `waitAll` does not return early is a matter of counting, but a sum over callers
and callbacks would need induction. `PermitsInv` says instead that there is an assignment of the
permits to holders (the semaphore, a callback, a caller of `waitAll`) that agrees with `room` and
`collected` and gives each active callback one. A step moves one permit (`PermitMoves`). A caller that
has collected `m_batchSize` of them holds all, so no callback has any. A callback that throws keeps
its permit for ever, and a second caller may share them: this makes `waitAll` hang, not
return early.

**TcpServer.** `ListeningInv`: what listens is `m_sockets`, or what the closure that runs has still to
close. `LoopInv`: if no `start` came before the closures of an earlier `stop` had ended, no socket
is left for a second `start`, so a socket has one accept loop, and the loop that waits is the one
its open socket resumes, or is in `stranded`. `AloneInv`: with one thread no loop runs while a
closure does, so that what `close()` has cancelled stays cancelled until `close_f`: nothing is
stranded and no assertion fails.

**HttpPool.** A connection is idle or has one owner (`OwnersInv`); `WireInv` says what is on the
way on it: nothing that could be taken for a response while it is idle or about to be written to,
and only the response to its owner's request while that one waits.

**Config.** `ListenersInv`: while no calls overlapped, one thread is in `setValue`, and listeners know the
value, or the one it will assign. `LoadInv`: a file that is noted is about to be read, its value on the
way, or there.

**WebSocket.** What has to be said of the bytes on the way is where they lead. A place is what the
receiver is about to read (head, length, mask or data of which frame), and `OnItsWay` that
some route of places leads over the pieces in the stream and those still to be written,
from where the receiver is to where the sender will be. Sending a frame prolongs a route at its
end and reading shortens it at its start. A pong comes in between two pieces: it leaves the
route intact only where a head is due, and counts as `torn` elsewhere. With the route,
`ArrivedSoFar` (what is delivered and joined is a prefix of what was offered) is inductive, and both
properties follow from `WsInv`. The sender that masks a text twice changes bytes and not the
route, which is why `DeliveredAsSent` makes an exception of it and `SessionSurvives` does not.

**TimedCaches.** `TcInv`: the index of a `TimeCache` points into its set of expiry, and a key that was
never set over itself has one item. `prune` goes by the items and not by the
index; that it finds as many as it needs is `PruneTakesAFront`: since all that is
indexed is in the set, taking the whole set is enough, so there is a least front
that is (`LeastItem`). `TimeCacheStaysSmall` rests on it too.

**Refinement of ExpiringMap.** `LruInv` says that the list has no key twice, that index and
set of expiry are the keys and the stamps of what is listed, and that there are not too many. One lemma
per operation on lists (`ErasedFacts`, `PushFacts`, `CutFacts`, `RestFacts`) gives the items
of the new list, one lemma per call what that is to the map. `set` of a new key is the
interesting one: the stamps and keys `prune` takes are those of the back of the list,
the new item is not among them, and it takes some exactly when the map is `Crowded` and then leaves
`MaxSize`. The attempt to prove it for all sizes showed that a first `ExpiringMap`, which TLC accepted
on the sizes of `parts`, was wrong without an elasticity: `prune` starts at the size
it prunes to, and removes nothing then.

**ByteArray.** `ByteInv` says where things are. `ChainInv`: the chain is of whole nodes, `m_size` lies
between `m_pos` and the capacity, and `m_cur` is the node of `m_pos`, or at the very end the last
node or none. `ContentInv`: up to `m_size` the chain holds what a plain array would. The
arithmetic is in lemmas on division by the size of a node (`DivisionOfSum`: how many nodes
a read passes; `DivisionBefore`: `write` stops in a node it fills, where `read` goes on). `GrownFacts` says that
`addCapacity` makes enough room and keeps what was there, `StartIsPlace` that the byte a write
or `recv` starts with is the one at `m_pos`, also when the node it starts in was just added, and
`ChainAfter` what both leave behind. Nodes may have any size but 0; `MaxBytes` is any bound.
The file of `writeToFile` is gathered by a recursive function over the nodes. That there is one is
proved, not assumed (`FilesExist`), and what holds of it for one node and all behind is proved with a last
counterexample (`Downward`), as the induction theorems of the library cannot be used: from the start of a node on
the rest is taken (`FileFromNode`), and within the node a file that does not fill it began in, the length
comes to nothing or less before the rest is taken (`FileGoesBeyond`).

`NumbersReturn` needs no invariant but that the number is one `WriteNumbers` makes; the work is in what the
encodings compute. `Power` and `Value` are recursive functions; that they exist and what they satisfy from one
argument to the next is proved as for `writeToFile` (`Upward`, `Downward`). On that rest four
facts: the digits of a number below `Power[bits * n]` are worth it (`DigitsWorth`) and no `n` digits are worth
more (`ValueBound`); the reader leaves its loop at the byte the writer ended with
(`VarintReturns`), for which a number below 2^width must not need more than `Groups(width)` groups;
zigzag is undone and stays within the width (`ZigzagReturns`). The exceptions are proved as well: a length
cut to 16 bits is never the length, and a float read as a varint is less than its bits (`LittleLess`,
`BigLess`) unless its first byte ends the varint. `ByteAssumption` asks only that half a width is whole bytes
and a byte holds a group and one bit; 64 and 7 are a case of it, the run takes a smaller one.

**Only model-checked.** All liveness and everything with `ENABLED` (TLAPS does not handle
it). The refinements with several threads beyond their steps: after a clash they are
false.

## 5. Findings

1. `sem_restart`: `m_state` is HOLD before the context is saved; a `notify` in
   between resumes the fiber from its previous context on a stack in use.
2. `timer_null`: `cancel()` takes no lock; a null callback reaches the assertion
   of `scheduler.cpp:87`.
3. `timer_sleep`: the registered end of the tick pipe is the write end; a timer
   added to sleeping workers waits for their timeout.
4. `timer_pipe`: nobody reads the pipe; once it is full `addTimer` blocks with
   `m_mutex` held.
5. `rock_request`: `doRecv` takes the context of an answered request off the map and
   nothing resumes the fiber that `request` suspended.

What the code does and no doc, comment or test speaks of is no finding; it stands
as an exception in the property it bounds, and section 3 lists it.

## 6. Hazards

`PROJECT.json` lists them with the properties that watch them. Where the code lets a
hazard happen in some circumstances, the property names these as its exception and the
hazard's note says so. Two have no property, as the code does nothing against them and
nothing in the repository says that it would: `stop()` while entries are pinned to a thread
that has left or fibers are suspended, or of an IOManager, whose `isStoping` is false for ever
(the mutant of `StopReturns` is this behaviour); and the call that is woken more often than
its timeout.

## 7. Not modelled

* `uri.cpp`, `http11_parser.rl.cpp`, `httpclient_parser.rl.cpp`: tables and gotos generated by ragel, some
  21000 of the 35900 lines of the implementation. A model of them would be a
  transliteration. This bounds the share of lines the map can cover.
* HTTP messages, servlets and sessions beyond the order of requests: records of
  strings and their formatting; the lookup of a servlet.
* WorkerManager, modules, libraries, the application, environment: set up by one thread before
  anything else runs. The daemon: one thread that forks, waits and sleeps.
* Log, addresses, hashes, compression, utilities: formatting, pure functions over bytes, calls into
  libraries. Thread wrappers: constructors of pthread objects.
* Of IOManager: `stop()`. Of the hooks: `nanosleep`, which returns no value at all, and a timeout changed
  by `setsockopt` between two calls. Of the configuration: YAML conversions. Of sockets: what only
  hands a system call through. `LruCache`: line 69 of `lru_cache.h` does not parse and nothing
  includes it.

## 8. Plan

Proofs: of the implementations with several threads, what each step keeps after a clash.
