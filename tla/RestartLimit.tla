---------------------------- MODULE RestartLimit ----------------------------
(***************************************************************************)
(* One module slot seen only through the restart limiter, so that it can   *)
(* be checked with the program's own window of 30 cycles.  A step is a     *)
(* whole cycle of the service thread or a command of the operator between  *)
(* two cycles.  The environment decides whether fork succeeds and whether  *)
(* the process is still there at the next cycle.                           *)
(***************************************************************************)
EXTENDS RestartCounter

CONSTANT Limits   \* the values of <module-restarts> in use

ASSUME LimitsAssumption == Limits \subseteq Nat

VARIABLES module_enabled,
          module_status,
          module_restart_cnt,
          module_restart_timer,
          max_restarts,
          starts,   \* history: starts in a row of which none survived a cycle
          overrun   \* history: was the count above the limit when the row began?

vars == <<module_enabled, module_status, module_restart_cnt,
          module_restart_timer, max_restarts, starts, overrun>>

\* A module inserted as enabled by the first load of the configuration.
Init ==
    /\ module_enabled = TRUE
    /\ module_status = FALSE
    /\ module_restart_cnt = -1
    /\ module_restart_timer = 0
    /\ max_restarts \in Limits
    /\ starts = 0 /\ overrun = FALSE

Tick == module_restart_timer' = NextTimer(module_restart_timer)

TickedCnt == NextCnt(module_restart_cnt, module_restart_timer)

AtLimit == LimitReached(TickedCnt, max_restarts)

\* The history counter saturates above every bound stated about it.
StartsCap == 2 * Periods

Counted(n) == IF n < StartsCap THEN n + 1 ELSE n

AnotherStart == starts' = Counted(starts) /\ UNCHANGED overrun

\* Only a reload can leave the count above the limit.
NewRow ==
    /\ starts' = 0
    /\ overrun' \in BOOLEAN
    /\ overrun' <=> module_restart_cnt' > max_restarts'

\* The module is down although it is enabled, and its limit is used up.
GiveUp ==
    /\ module_enabled /\ ~module_status
    /\ AtLimit
    /\ Tick
    /\ module_enabled' = FALSE
    /\ module_restart_cnt' = TickedCnt
    /\ UNCHANGED <<module_status, max_restarts>>
    /\ NewRow

\* The module is down and is started; the child lives on or dies at once.
Start ==
    /\ module_enabled /\ ~module_status
    /\ ~AtLimit
    /\ module_restart_cnt' = TickedCnt + 1
    /\ module_restart_timer' =
         TimerAfterStart(TickedCnt, NextTimer(module_restart_timer))
    /\ module_status' \in BOOLEAN
    /\ AnotherStart
    /\ UNCHANGED <<module_enabled, max_restarts>>

\* fork() returns -1: the attempt is counted, the timer is left alone.
ForkFails ==
    /\ module_enabled /\ ~module_status
    /\ ~AtLimit
    /\ Tick
    /\ module_restart_cnt' = TickedCnt + 1
    /\ AnotherStart
    /\ UNCHANGED <<module_enabled, module_status, max_restarts>>

\* A cycle that finds the enabled module running; it may die in its course.
Watch ==
    /\ module_enabled /\ module_status
    /\ Tick
    /\ module_restart_cnt' = TickedCnt
    /\ module_status' \in BOOLEAN
    /\ UNCHANGED <<module_enabled, max_restarts>>
    /\ NewRow

\* A cycle over a disabled module: a running one is stopped by SIGINT and
\* SIGKILL, which puts its counter back to -1, unless it has just ended.
KeepDown ==
    /\ ~module_enabled
    /\ Tick
    /\ module_restart_cnt' \in IF module_status THEN {-1, TickedCnt} ELSE {TickedCnt}
    /\ module_status' = FALSE
    /\ UNCHANGED <<module_enabled, max_restarts>>
    /\ NewRow

\* interactive_set_enabled
SetEnabled ==
    /\ ~module_enabled
    /\ module_enabled' = TRUE
    /\ module_restart_cnt' = -1
    /\ UNCHANGED <<module_status, module_restart_timer, max_restarts>>
    /\ NewRow

\* interactive_set_disabled
SetDisabled ==
    /\ module_enabled
    /\ module_enabled' = FALSE
    /\ UNCHANGED <<module_status, module_restart_cnt, module_restart_timer,
                   max_restarts>>
    /\ NewRow

\* A reload that changes nothing but the limit; the counter is kept, even
\* above the new limit.
ReloadLimit ==
    /\ max_restarts' \in Limits \ {max_restarts}
    /\ UNCHANGED <<module_enabled, module_status, module_restart_cnt,
                   module_restart_timer>>
    /\ NewRow

Cycle == GiveUp \/ Start \/ ForkFails \/ Watch \/ KeepDown

Next == Cycle \/ SetEnabled \/ SetDisabled \/ ReloadLimit

Spec == Init /\ [][Next]_vars

-----------------------------------------------------------------------------
TypeOK ==
    /\ module_enabled \in BOOLEAN
    /\ module_status \in BOOLEAN
    /\ module_restart_cnt \in Int /\ module_restart_cnt >= -1
    /\ module_restart_timer \in 0..(Periods - 1)
    /\ max_restarts \in Limits
    /\ starts \in 0..StartsCap
    /\ overrun \in BOOLEAN

(***************************************************************************)
(* The counter never outruns the window: at most one restart is counted    *)
(* per cycle since the timer was last zero (service_update_modules_status  *)
(* ticks before it starts, service_start_module re-opens the window).      *)
(***************************************************************************)
CountWithinWindow == module_restart_cnt <= module_restart_timer + 1

(***************************************************************************)
(* README: "When the limit is reached, module is automatically set to      *)
(* disabled."  A module that dies in every cycle is started only so many   *)
(* times in a row before it is disabled: one window's worth left over from *)
(* the past, one full window, and the start that is not a restart.  A      *)
(* reload may lower the limit below the count: the test for equality then  *)
(* passes the count over, and the module goes on until the window ends and *)
(* the new limit is met from zero, for less than a window of starts.       *)
(***************************************************************************)
RestartsBounded ==
    max_restarts < Periods =>
        starts <= IF overrun THEN Periods - 1 ELSE 2 * max_restarts + 1

(***************************************************************************)
(* configs/config_example.xml: the interval of the limit is "<0,30> where  *)
(* 30 is equal infinity".  The code has no such case: it holds because the *)
(* counter is cleared, in the same cycle, before it could equal 30.        *)
(***************************************************************************)
FullWindowIsInfinity == max_restarts >= Periods => ~AtLimit
=============================================================================
