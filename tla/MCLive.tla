--------------------------------- MODULE MCLive --------------------------------
(***************************************************************************)
(* The components whose liveness is checked, side by side in one instance: *)
(* the scheduler's pool, hooked calls with one worker, RockStream,         *)
(* WorkerGroup and TcpServer.  They share no variable; a behaviour is one  *)
(* of one part, which is chosen at the start, and the others keep still.   *)
(***************************************************************************)
EXTENDS MCHookIO, WorkerGroup, TcpServer, Sequences

CONSTANTS s1, n1,                               \* messages of RockStream
          j1, j2, j3, f1, f2,                   \* jobs and fibers of WorkerGroup
          k1,                                   \* a socket of TcpServer
          t1, t2, h1, h2, y1, y2,               \* SchedulerTasks
          AnyThread, NoFiber, NoTask

VARIABLES
    list, permits, pending, caller, writer, batch, reader, connected, sent, taken,
    inbox, peer, spoken, enqueued, crashed
VARIABLES
    m_fibers, m_stop, where, ft, need_tick, cb_fiber, cur_fiber, at, fiberState, ctx,
    m_cb, clash, waiting, parks, early_, late, begun, ended
VARIABLE part

rockVars == <<list, permits, pending, caller, writer, batch, reader, connected, sent,
              taken, inbox, peer, spoken, enqueued, crashed>>
schedVars == <<m_fibers, m_stop, where, ft, need_tick, cb_fiber, cur_fiber, at, fiberState,
               ctx, m_cb, clash, waiting, parks, early_, late, begun, ended>>

Rock  == INSTANCE RockStream WITH Requests <- {s1}, Notices <- {n1}, Asks <- {},
                                  Squeezed <- {n1}
Sched == INSTANCE SchedulerTasks WITH
           Threads <- {t1, t2}, Fibers <- {h1, h2}, Tasks <- {y1, y2},
           Pin <- [y \in {y1, y2} |-> IF y = y1 THEN t1 ELSE AnyThread],
           Kind <- [y \in {y1, y2} |-> IF y = y2 THEN "ready" ELSE "plain"],
           MaxParks <- 0,
           pc <- where, cur <- cur_fiber, state <- fiberState, early <- early_

Parts == {"io", "rock", "group", "tcp", "sched"}

LiveInit ==
    /\ part \in Parts
    /\ Init /\ (part # "io" => cast = {z})
    /\ Rock!RockInit /\ GroupInit /\ TcpInit /\ (part # "tcp" => alone) /\ Sched!Init

Still(which) ==
    /\ "io" \in which => UNCHANGED vars
    /\ "rock" \in which => UNCHANGED rockVars
    /\ "group" \in which => UNCHANGED groupVars
    /\ "tcp" \in which => UNCHANGED tcpVars
    /\ "sched" \in which => UNCHANGED schedVars

Runs(p) == part = p /\ part' = p /\ Still(Parts \ {p})

LiveNext ==
    \/ Runs("io") /\ Next
    \/ Runs("rock") /\ Rock!RockNext
    \/ Runs("group") /\ GroupNext
    \/ Runs("tcp") /\ TcpNext
    \/ Runs("sched") /\ Sched!Next

(***************************************************************************)
(* The fairness that each module states as Fairness.  One part runs and    *)
(* the others have nothing to do, so that a condition on a disjunction of  *)
(* actions, one of each part, is a condition on each of them.              *)
(***************************************************************************)
liveVars == <<vars, rockVars, groupVars, tcpVars, schedVars, part>>

InIo(A)    == Runs("io") /\ Fairly(A)
InRock(A)  == Runs("rock") /\ ~crashed /\ A
InGroup(A) == Runs("group") /\ A
InTcp(A)   == Runs("tcp") /\ ~broken /\ A
InSched(A) == Runs("sched") /\ A

Ends(j)    == Finish(j) \/ Throw(j)
Drains(f)  == SetFinish(f) \/ TakeOne(f)
Thread(t)  == Sched!ThreadLoop(t) \/ Sched!TaskStep(t)
Handles    == \E w \in crew : \E e \in fetched[w] : HandleEvent(w, e)
Closes     == \E w \in crew, fd \in Busy : ForgetCtx(w, fd) \/ CloseFile(w, fd)
Resumes(t) == \E w \in crew : Resume(w, t)

LiveFairness ==
    /\ WF_liveVars(InIo(Moves(r) \/ Moves(z)) \/ InRock(Rock!Calling(s1)) \/ InGroup(DoWork(j1))
                   \/ InTcp(Accepting(<<k1, 1>>)) \/ InSched(Thread(t1)))
    /\ WF_liveVars(InIo(Moves(x)) \/ InRock(Rock!Calling(n1)) \/ InGroup(DoWork(j2))
                   \/ InTcp(Accepting(<<k1, 2>>)) \/ InSched(Thread(t2)))
    /\ WF_liveVars(InIo(Handles) \/ InGroup(DoWork(j3)))
    /\ WF_liveVars(InIo(Closes) \/ InRock(Rock!Writing) \/ InGroup(Ends(j1)) \/ InTcp(ClosingAll))
    /\ WF_liveVars(InRock(Rock!Reading) \/ InGroup(Ends(j2)))
    /\ WF_liveVars(InRock(Rock!PeerReads) \/ InGroup(Ends(j3)))
    /\ SF_liveVars(InIo(Resumes(r) \/ Resumes(z)) \/ InGroup(Admit(j1))
                   \/ InTcp(TakeLoop(<<k1, 1>>)))
    /\ SF_liveVars(InIo(Resumes(x)) \/ InGroup(Admit(j2)) \/ InTcp(TakeLoop(<<k1, 2>>)))
    /\ SF_liveVars(InIo(\E w \in crew : Disarm(w, r) \/ Disarm(w, z)) \/ InGroup(Admit(j3))
                   \/ InTcp(BeginClosing))
    /\ SF_liveVars(InIo(\E w \in crew : RunTimeout(w, r) \/ EndSleep(w, z)) \/ InGroup(Drains(f1)))
    /\ SF_liveVars(InIo(\E w \in crew : EpollWait(w)) \/ InGroup(Drains(f2))
                   \/ InTcp(WakeLoop(k1)))

LiveSpec ==
    /\ LiveInit
    /\ [][LiveNext]_liveVars
    /\ LiveFairness

-------------------------------------------------------------------------------
(***************************************************************************)
(* What is checked of each part, under the name it has there; the others   *)
(* are those of HookIO, WorkerGroup and TcpServer as they are.             *)
(***************************************************************************)

(* A task submitted before stop() is entered, one pinned to a thread too   *)
(* (scheduler.cpp:74-131).                                                 *)
EarlyTasksRun == Sched!EarlyTasksRun

(* Whatever is on m_list_ctxs is taken while the stream is open            *)
(* (async_socket_stream.cpp:42-73).                                        *)
QueueServed == Rock!QueueServed
================================================================================
