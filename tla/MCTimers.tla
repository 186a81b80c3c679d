------------------------------- MODULE MCTimers -------------------------------
(***************************************************************************)
(* Two settings of TimerManager in one instance, chosen at the start: in   *)
(* the one of the cfg the clock is free and users race with the threads    *)
(* over timers of one millisecond; in the punctual one time passes only    *)
(* when no thread can take a step, one timer is cyclic and the other one   *)
(* further away than an int and than the longest sleep reach.              *)
(***************************************************************************)
EXTENDS MCTimerManager

VARIABLE punctual

Late == INSTANCE TimerManager WITH
          Ms <- OneAndLong, Low <- {x1}, IntMax <- 3, PipeSize <- 20,
          MaxTime <- 4, Prompt <- TRUE

TimersInit == punctual \in BOOLEAN /\ Init

TimersNext ==
  /\ punctual' = punctual
  /\ \/ ~punctual /\ Next
     \/ punctual /\ Late!Next

TimersSpec == TimersInit /\ [][TimersNext]_<<vars, punctual>>
===============================================================================
