--------------------------- MODULE RestartCounter ---------------------------
(***************************************************************************)
(* The arithmetic of the restart limiter of service_update_modules_status  *)
(* and service_start_module (supervisor.c).  Every module slot holds a     *)
(* counter module_restart_cnt and a timer module_restart_timer that is     *)
(* advanced once per cycle of the service thread.  The counter is -1 after *)
(* an operator's start or a requested stop, so that the first start is not *)
(* counted as a restart.                                                   *)
(***************************************************************************)
EXTENDS Integers

CONSTANT Periods   \* NUM_SERVICE_IFC_PERIODS, the cycles in one window (30)

ASSUME PeriodsAssumption == Periods \in Nat \ {0}

\* The window ends when the pre-incremented timer reaches Periods.
WindowEnds(timer) == timer + 1 >= Periods

\* Mutant: the window is one cycle too long.
LateTimer(timer) == IF timer + 1 > Periods THEN 0 ELSE timer + 1

NextTimer(timer) == IF WindowEnds(timer) THEN 0 ELSE timer + 1

\* Mutant: the counter is never cleared.
KeptCnt(cnt, timer) == cnt

\* Only a positive counter is cleared; -1 survives the end of a window.
NextCnt(cnt, timer) == IF WindowEnds(timer) /\ cnt > 0 THEN 0 ELSE cnt

\* The module's own limit wins over the supervisor's when it is configured
\* (-1 stands for "not configured").
MaxRestarts(own, global) == IF own > -1 THEN own ELSE global

\* Mutant: the limit is off by one.
LimitExceeded(cnt, max) == cnt > max

\* Mutant: a limit of zero is also reached by the first start's -1.
LimitWithin(cnt, max) == cnt + 1 >= max

\* The code tests for equality, not for "at least".
LimitReached(cnt, max) == cnt = max

\* The first counted restart opens a new window.
TimerAfterStart(cnt, timer) == IF cnt + 1 = 1 THEN 0 ELSE timer
=============================================================================
