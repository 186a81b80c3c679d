------------------------------- MODULE TcpServer -------------------------------
(***************************************************************************)
(* TcpServer (tcpserver.cpp) with the accept, close and cancelAll of       *)
(* Socket and the hooked calls under them.  bind makes the listening       *)
(* sockets, start schedules one accept loop per socket on m_acceptWorker,  *)
(* stop sets m_isStop and schedules a closure that closes the sockets.     *)
(* With several threads, loops and closures run at the same time.          *)
(*                                                                         *)
(* A loop that finds no connection registers with addEvent inside do_io    *)
(* and, when it is resumed, tries again there, without a look at m_isStop. *)
(* close() is three steps, cancelAllEvent, FdManager::del and close_f.     *)
(* HookIO follows do_io statement by statement, for any call, and says     *)
(* what happens if the number is in use again when a loop is resumed.      *)
(***************************************************************************)
EXTENDS Naturals

CONSTANTS Socks,    \* addresses given to bind
          Starts,   \* bound: effective calls of start, and closures at a time
          NoLoop    \* nobody waits for a connection, no closure runs

Loops == Socks \X (1..Starts)

\* What close() of the socket a closure is at has still to do.
Rest == {"cancelAllEvent", "del", "close_f"} \X Socks

ASSUME TcpAssumption ==
    /\ Starts \in Nat
    /\ NoLoop \notin Loops \cup Rest
    /\ \A some \in SUBSET Socks : NoLoop # some

VARIABLES
    alone,      \* m_acceptWorker has one thread
    stopped,    \* m_isStop
    sockets,    \* m_sockets
    listening,  \* sockets whose m_sock is a descriptor
    backlog,    \* sockets with a connection to accept
    accepting,  \* the loop that is registered for READ on each socket
    loop,       \* statement of each accept loop
    starts,     \* calls of start that did something
    closures,   \* closures of stop that have not ended
    left,       \* sockets the running closure has still to close, NoLoop: none runs
    closing,    \* the socket it is at, and the next step of its close()
    hasty,      \* history: start was called before the closure had ended
    stranded,   \* history: loops that were registered when close_f came
    broken      \* an assertion failed, or m_sockets was cleared under a loop over it

closureVars == <<sockets, closures, left, closing>>
tcpVars == <<alone, stopped, listening, backlog, accepting, loop, starts, closureVars,
             hasty, stranded, broken>>

TcpInit ==
    /\ alone \in BOOLEAN
    /\ stopped = TRUE
    /\ sockets = {} /\ listening = {} /\ backlog = {}
    /\ accepting = [s \in Socks |-> NoLoop]
    /\ loop = [a \in Loops |-> "new"]
    /\ starts = 0 /\ closures = 0 /\ left = NoLoop /\ closing = NoLoop
    /\ hasty = FALSE /\ stranded = {} /\ broken = FALSE

\* bind: one address that fails, and the sockets of all of them are dropped.
Bind(fails) ==
    /\ starts = 0 /\ closures = 0 /\ sockets = {}
    /\ sockets' = IF fails = {} THEN Socks ELSE {}
    /\ listening' = sockets'
    /\ UNCHANGED <<alone, stopped, backlog, accepting, loop, starts, closures, left, closing,
                   hasty, stranded, broken>>

StartServer ==
    /\ stopped /\ starts < Starts
    /\ stopped' = FALSE
    /\ starts' = starts + 1
    /\ loop' = [a \in Loops |->
                  IF a[1] \in sockets /\ a[2] = starts' THEN "scheduled" ELSE loop[a]]
    /\ hasty' = (hasty \/ closures > 0)
    /\ UNCHANGED <<alone, listening, backlog, accepting, closureVars, stranded, broken>>

StopServer ==
    /\ closures < Starts
    /\ stopped' = TRUE
    /\ closures' = closures + 1
    /\ UNCHANGED <<alone, sockets, listening, backlog, accepting, loop, starts, left, closing,
                   hasty, stranded, broken>>

(***************************************************************************)
(* startAccept.  A client is handed to m_worker and the loop goes on; an   *)
(* accept on a closed socket fails and the loop goes on all the same.      *)
(*                                                                         *)
(* scheduled  in m_fibers, not begun       try      do_io, about to accept_f *)
(* test       about to test m_isStop       bare     the same without FdCtx *)
(* accept     about to look up the FdCtx   again    EAGAIN, about to addEvent *)
(* resumed    in m_fibers, goes on at try  waiting  registered, suspended  *)
(***************************************************************************)
Running(a) == loop[a] \in {"test", "accept", "try", "bare", "again"}

\* A thread of m_acceptWorker is free.
Room == alone => left = NoLoop /\ \A a \in Loops : ~Running(a)

Goes(a, s) == loop' = [loop EXCEPT ![a] = s]

TakeLoop(a) ==
    /\ Room
    /\ loop[a] \in {"scheduled", "resumed"}
    /\ Goes(a, IF loop[a] = "scheduled" THEN "test" ELSE "try")
    /\ UNCHANGED <<alone, stopped, listening, backlog, accepting, starts, closureVars, hasty,
                   stranded, broken>>

\* mutant: the loop does not look at m_isStop
TestStopNot(a) ==
    /\ loop[a] = "test"
    /\ loop' = [loop EXCEPT ![a] = "accept"]
    /\ UNCHANGED <<alone, stopped, listening, backlog, accepting, starts, closureVars, hasty,
                   stranded, broken>>

TestStop(a) ==
    /\ loop[a] = "test"
    /\ Goes(a, IF stopped THEN "ended" ELSE "accept")
    /\ UNCHANGED <<alone, stopped, listening, backlog, accepting, starts, closureVars, hasty,
                   stranded, broken>>

\* FdMgr::get of do_io: without an FdCtx accept_f is called as it is.
LookUp(a) ==
    /\ loop[a] = "accept"
    /\ Goes(a, IF a[1] \in listening /\ closing # <<"close_f", a[1]>> THEN "try" ELSE "bare")
    /\ UNCHANGED <<alone, stopped, listening, backlog, accepting, starts, closureVars, hasty,
                   stranded, broken>>

Accept(a) ==
    /\ loop[a] \in {"try", "bare"}
    /\ Goes(a, IF loop[a] = "try" /\ a[1] \in listening \ backlog THEN "again" ELSE "test")
    /\ backlog' = backlog \ {a[1]}
    /\ UNCHANGED <<alone, stopped, listening, accepting, starts, closureVars, hasty, stranded,
                   broken>>

\* addEvent, which asserts that epoll takes the descriptor, and yield.
Suspend(a) ==
    /\ loop[a] = "again"
    /\ IF a[1] \in listening
       THEN /\ accepting' = [accepting EXCEPT ![a[1]] = a]
            /\ Goes(a, "waiting")
            /\ UNCHANGED broken
       ELSE broken' = TRUE /\ UNCHANGED <<accepting, loop>>
    /\ UNCHANGED <<alone, stopped, listening, backlog, starts, closureVars, hasty, stranded>>

\* triggerEvent: the loop that waits on s is scheduled.
Triggers(s) ==
    /\ loop' = [a \in Loops |-> IF accepting[s] = a THEN "resumed" ELSE loop[a]]
    /\ accepting' = [accepting EXCEPT ![s] = NoLoop]

ConnectionComes(s) ==
    /\ s \in listening
    /\ backlog' = backlog \cup {s}
    /\ UNCHANGED <<alone, stopped, listening, accepting, loop, starts, closureVars, hasty,
                   stranded, broken>>

\* idleFun on a free thread
WakeLoop(s) ==
    /\ Room
    /\ s \in backlog /\ accepting[s] # NoLoop
    /\ Triggers(s)
    /\ UNCHANGED <<alone, stopped, listening, backlog, starts, closureVars, hasty, stranded,
                   broken>>

(***************************************************************************)
(* The closure of stop.  Two of them may run at a time: the first to end   *)
(* clears the vector the other iterates over.                              *)
(***************************************************************************)
BeginClosing ==
    /\ Room
    /\ closures > 0
    /\ IF left = NoLoop
       THEN left' = sockets /\ UNCHANGED broken
       ELSE closures > 1 /\ broken' = TRUE /\ UNCHANGED left
    /\ UNCHANGED <<alone, stopped, sockets, listening, backlog, accepting, loop, starts,
                   closures, closing, hasty, stranded>>

\* sock->cancelAll()
CancelSocket(s) ==
    /\ left # NoLoop /\ s \in left /\ closing = NoLoop
    /\ Triggers(s)
    /\ closing' = <<"cancelAllEvent", s>>
    /\ UNCHANGED <<alone, stopped, sockets, listening, backlog, starts, closures, left, hasty,
                   stranded, broken>>

\* sock->close(): the hooked close first cancels what has been registered since.
CancelAgain(s) ==
    /\ closing = <<"cancelAllEvent", s>>
    /\ Triggers(s)
    /\ closing' = <<"del", s>>
    /\ UNCHANGED <<alone, stopped, sockets, listening, backlog, starts, closures, left, hasty,
                   stranded, broken>>

ForgetSocket(s) ==
    /\ closing = <<"del", s>>
    /\ closing' = <<"close_f", s>>
    /\ UNCHANGED <<alone, stopped, sockets, listening, backlog, accepting, loop, starts,
                   closures, left, hasty, stranded, broken>>

\* close_f takes the descriptor out of epoll and tells nobody; then m_sock = -1.
CloseSocket(s) ==
    /\ closing = <<"close_f", s>>
    /\ closing' = NoLoop
    /\ listening' = listening \ {s}
    /\ backlog' = backlog \ {s}
    /\ left' = left \ {s}
    /\ stranded' = stranded \cup {a \in Loops : accepting[s] = a}
    /\ UNCHANGED <<alone, stopped, sockets, accepting, loop, starts, closures, hasty, broken>>

EndClosing ==
    /\ left = {} /\ closing = NoLoop
    /\ sockets' = {}
    /\ closures' = closures - 1
    /\ left' = NoLoop
    /\ UNCHANGED <<alone, stopped, listening, backlog, accepting, loop, starts, closing, hasty,
                   stranded, broken>>

-------------------------------------------------------------------------------
Accepting(a) == TestStop(a) \/ LookUp(a) \/ Accept(a) \/ Suspend(a)

ClosingAll ==
    \/ EndClosing
    \/ \E s \in Socks :
          CancelSocket(s) \/ CancelAgain(s) \/ ForgetSocket(s) \/ CloseSocket(s)

TcpNext ==
    /\ ~broken
    /\ \/ \E fails \in SUBSET Socks : Bind(fails)
       \/ StartServer
       \/ StopServer
       \/ \E a \in Loops : TakeLoop(a) \/ Accepting(a)
       \/ \E s \in Socks : ConnectionComes(s) \/ WakeLoop(s)
       \/ BeginClosing
       \/ ClosingAll

TcpSpec == TcpInit /\ [][TcpNext]_tcpVars

(***************************************************************************)
(* What runs goes on (WF).  A thread takes each entry of m_fibers when it  *)
(* is free, and runs idleFun then (SF).                                    *)
(***************************************************************************)
TcpFairness ==
    /\ \A a \in Loops : /\ WF_tcpVars(~broken /\ Accepting(a))
                        /\ SF_tcpVars(~broken /\ TakeLoop(a))
    /\ \A s \in Socks : SF_tcpVars(~broken /\ WakeLoop(s))
    /\ SF_tcpVars(~broken /\ BeginClosing)
    /\ WF_tcpVars(~broken /\ ClosingAll)

TcpFairSpec == TcpSpec /\ TcpFairness
-------------------------------------------------------------------------------
(***************************************************************************)
(* A loop that is suspended in accept is the one its socket resumes, and   *)
(* the socket is open: no loop was passed over by a closure, nor came too  *)
(* late for it - but for a loop that was resumed by a cancel and found no  *)
(* connection again, and registered between the last cancelAllEvent and    *)
(* close_f.  That, like a socket closed between EAGAIN and addEvent, which *)
(* asserts, takes a second thread (hook.cpp:326-338).  When the closures   *)
(* have ended, nothing is listening and no connection can be accepted.     *)
(***************************************************************************)
StopCloses ==
    /\ alone => ~broken /\ stranded = {}
    /\ ~hasty =>
          /\ \A a \in Loops :
                loop[a] = "waiting" =>
                    accepting[a[1]] = a /\ (a[1] \in listening \/ a \in stranded)
          /\ stopped /\ starts > 0 /\ closures = 0 => listening = {} /\ backlog = {}

(***************************************************************************)
(* Once the server is stopped for good its sockets are closed, and every   *)
(* accept loop ends wherever it was when stop came: about to test          *)
(* m_isStop, in accept, or suspended; with one thread always, with several *)
(* unless close_f left it behind.  Not if start was called before the      *)
(* closure had ended: two loops on a socket, of which epoll knows one.     *)
(***************************************************************************)
AcceptLoopsEnd ==
    /\ []StopCloses
    /\ <>[]stopped => <>(broken \/ hasty \/ [](\A a \in Loops :
                        \/ loop[a] = "new"
                        \/ a[1] \notin listening /\ (loop[a] = "ended" \/ a \in stranded)))
===============================================================================
