------------------------ MODULE RestartLimit_proofs ------------------------
(***************************************************************************)
(* The restart limiter for every window and every set of limits.           *)
(***************************************************************************)
EXTENDS RestartLimit, TLAPS

-----------------------------------------------------------------------------
(* The arithmetic of RestartCounter. *)

(***************************************************************************)
(* The timer of service_update_modules_status stays inside the window.     *)
(***************************************************************************)
LEMMA NextTimerType ==
    ASSUME NEW t \in 0..(Periods - 1)
    PROVE  NextTimer(t) \in 0..(Periods - 1)
BY PeriodsAssumption DEF NextTimer, WindowEnds

(***************************************************************************)
(* Ticking keeps the counter an integer that is -1 at least, and never     *)
(* raises a counter that is not negative.                                  *)
(***************************************************************************)
LEMMA NextCntType ==
    ASSUME NEW cnt \in Int, cnt >= -1, NEW t \in 0..(Periods - 1)
    PROVE  /\ NextCnt(cnt, t) \in Int /\ NextCnt(cnt, t) >= -1
           /\ NextCnt(cnt, t) <= cnt
BY PeriodsAssumption DEF NextCnt, WindowEnds

(***************************************************************************)
(* After a tick the counter is strictly behind the window: this is why the *)
(* restart that may follow still fits in, and why a limit of a full window *)
(* is never met.                                                           *)
(***************************************************************************)
LEMMA TickedBehindWindow ==
    ASSUME NEW cnt \in Int, cnt >= -1, NEW t \in 0..(Periods - 1),
           cnt <= t + 1
    PROVE  /\ NextCnt(cnt, t) <= NextTimer(t)
           /\ NextCnt(cnt, t) < Periods
BY PeriodsAssumption DEF NextCnt, NextTimer, WindowEnds

(***************************************************************************)
(* service_start_module sets the timer to a value it may already have.     *)
(***************************************************************************)
LEMMA TimerAfterStartType ==
    ASSUME NEW cnt \in Int, NEW t \in 0..(Periods - 1)
    PROVE  TimerAfterStart(cnt, t) \in 0..(Periods - 1)
BY PeriodsAssumption DEF TimerAfterStart

-----------------------------------------------------------------------------
(* The type invariant. *)

(***************************************************************************)
(* Every cycle and every command keeps the limiter's variables in range.   *)
(***************************************************************************)
LEMMA TypeOKStep == TypeOK /\ [Next]_vars => TypeOK'
<1> SUFFICES ASSUME TypeOK, [Next]_vars PROVE TypeOK'
    OBVIOUS
<1> USE PeriodsAssumption, LimitsAssumption DEF TypeOK
<1> DEFINE t == NextTimer(module_restart_timer)
<1>1. t \in 0..(Periods - 1)
    BY NextTimerType
<1>2. TickedCnt \in Int /\ TickedCnt >= -1
    BY NextCntType DEF TickedCnt
<1>3. TimerAfterStart(TickedCnt, t) \in 0..(Periods - 1)
    BY <1>1, <1>2, TimerAfterStartType
<1>4. /\ NewRow => starts' \in 0..StartsCap /\ overrun' \in BOOLEAN
      /\ AnotherStart => starts' \in 0..StartsCap /\ overrun' \in BOOLEAN
  <2>1. 0 \in 0..StartsCap /\ Counted(starts) \in 0..StartsCap
      BY DEF StartsCap, Counted
  <2>2. /\ NewRow => overrun' \in BOOLEAN
        /\ AnotherStart => overrun' \in BOOLEAN
      BY Zenon DEF NewRow, AnotherStart
  <2> QED BY <2>1, <2>2 DEF NewRow, AnotherStart
<1>a. CASE GiveUp
    BY <1>a, <1>1, <1>2, <1>4 DEF GiveUp, Tick
<1>b. CASE Start
  <2>1. /\ module_restart_cnt' \in Int /\ module_restart_cnt' >= -1
        /\ module_restart_timer' \in 0..(Periods - 1)
      BY <1>b, <1>2, <1>3 DEF Start
  <2>2. /\ module_status' \in BOOLEAN
        /\ UNCHANGED <<module_enabled, max_restarts>>
        /\ starts' \in 0..StartsCap /\ overrun' \in BOOLEAN
      BY <1>b, <1>4 DEF Start
  <2> QED BY <2>1, <2>2
<1>c. CASE ForkFails
    BY <1>c, <1>1, <1>2, <1>4 DEF ForkFails, Tick
<1>d. CASE Watch
    BY <1>d, <1>1, <1>2, <1>4 DEF Watch, Tick
<1>e. CASE KeepDown
  <2>1. module_restart_cnt' = -1 \/ module_restart_cnt' = TickedCnt
      BY <1>e DEF KeepDown
  <2>2. module_restart_cnt' \in Int /\ module_restart_cnt' >= -1
      BY <2>1, <1>2
  <2>3. module_status' \in BOOLEAN /\ module_enabled' \in BOOLEAN
      BY <1>e DEF KeepDown
  <2> QED BY <1>e, <1>1, <1>4, <2>2, <2>3 DEF KeepDown, Tick
<1>f. CASE SetEnabled
    BY <1>f, <1>4 DEF SetEnabled
<1>g. CASE SetDisabled
    BY <1>g, <1>4 DEF SetDisabled
<1>h. CASE ReloadLimit
    BY <1>h, <1>4 DEF ReloadLimit
<1>i. CASE UNCHANGED vars
    BY <1>i DEF vars
<1> QED
    BY <1>a, <1>b, <1>c, <1>d, <1>e, <1>f, <1>g, <1>h, <1>i DEF Next, Cycle

(***************************************************************************)
(* The variables of the limiter have their types in every reachable state; *)
(* in particular the counter never falls below -1 and the timer never      *)
(* leaves the window.                                                      *)
(***************************************************************************)
THEOREM TypeCorrect == Spec => []TypeOK
<1>1. Init => TypeOK
  <2> SUFFICES ASSUME Init PROVE TypeOK
      OBVIOUS
  <2>1. module_enabled \in BOOLEAN /\ module_status \in BOOLEAN
      BY Zenon DEF Init
  <2>2. /\ module_restart_cnt \in Int /\ module_restart_cnt >= -1
        /\ module_restart_timer \in 0..(Periods - 1)
        /\ max_restarts \in Limits
        /\ starts \in 0..StartsCap
      BY PeriodsAssumption DEF Init, StartsCap
  <2>3. overrun \in BOOLEAN
      BY Zenon DEF Init
  <2> QED BY <2>1, <2>2, <2>3 DEF TypeOK
<1> QED BY <1>1, TypeOKStep, PTL DEF Spec

-----------------------------------------------------------------------------
(* The counter and the window. *)

(***************************************************************************)
(* A cycle ticks before it starts a module, and the first counted restart  *)
(* re-opens the window, so the counter gains at most one on the timer.     *)
(***************************************************************************)
LEMMA CountWithinWindowStep ==
    TypeOK /\ CountWithinWindow /\ [Next]_vars => CountWithinWindow'
<1> SUFFICES ASSUME TypeOK, CountWithinWindow, [Next]_vars
             PROVE  CountWithinWindow'
    OBVIOUS
<1> DEFINE t == NextTimer(module_restart_timer)
<1>1. t \in Int /\ t >= 0
    BY NextTimerType, PeriodsAssumption DEF TypeOK
<1>2. TickedCnt \in Int /\ TickedCnt >= -1 /\ TickedCnt <= t
    BY NextCntType, TickedBehindWindow DEF TypeOK, CountWithinWindow, TickedCnt
<1> USE DEF CountWithinWindow
<1>a. CASE GiveUp
    BY <1>a, <1>1, <1>2 DEF GiveUp, Tick
<1>b. CASE Start
    BY <1>b, <1>1, <1>2 DEF Start, TimerAfterStart
<1>c. CASE ForkFails
    BY <1>c, <1>1, <1>2 DEF ForkFails, Tick
<1>d. CASE Watch
    BY <1>d, <1>1, <1>2 DEF Watch, Tick
<1>e. CASE KeepDown
    BY <1>e, <1>1, <1>2 DEF KeepDown, Tick
<1>f. CASE SetEnabled
    BY <1>f, PeriodsAssumption DEF SetEnabled, TypeOK
<1>g. CASE SetDisabled
    BY <1>g DEF SetDisabled
<1>h. CASE ReloadLimit
    BY <1>h DEF ReloadLimit
<1>i. CASE UNCHANGED vars
    BY <1>i DEF vars
<1> QED
    BY <1>a, <1>b, <1>c, <1>d, <1>e, <1>f, <1>g, <1>h, <1>i DEF Next, Cycle

(***************************************************************************)
(* The restart counter never outruns the window, for every window length.  *)
(***************************************************************************)
THEOREM CountStaysWithinWindow == Spec => []CountWithinWindow
<1>1. Init => CountWithinWindow
    BY DEF Init, CountWithinWindow
<1> QED
    BY <1>1, TypeCorrect, CountWithinWindowStep, PTL DEF Spec

(***************************************************************************)
(* A limit of a full window (30 in the program) is never reached: a module *)
(* with that limit is restarted for ever, as the example configuration     *)
(* says, although the code has no case for it.                             *)
(***************************************************************************)
THEOREM FullWindowNeverReached == Spec => []FullWindowIsInfinity
<1>1. TypeOK /\ CountWithinWindow => FullWindowIsInfinity
  <2> SUFFICES ASSUME TypeOK, CountWithinWindow, max_restarts >= Periods
               PROVE  ~AtLimit
      BY DEF FullWindowIsInfinity
  <2>1. TickedCnt \in Int /\ TickedCnt < Periods
      BY NextCntType, TickedBehindWindow DEF TypeOK, CountWithinWindow, TickedCnt
  <2>2. max_restarts \in Int
      BY LimitsAssumption DEF TypeOK
  <2> QED BY <2>1, <2>2, PeriodsAssumption DEF AtLimit, LimitReached
<1> QED BY <1>1, TypeCorrect, CountStaysWithinWindow, PTL

-----------------------------------------------------------------------------
(* The number of starts in a row. *)

(***************************************************************************)
(* The strengthening that makes RestartsBounded inductive.  While a module *)
(* keeps dying it first uses up what an earlier window left of its limit   *)
(* (FirstStretch).  If the window ends meanwhile, the counter is cleared   *)
(* once; from then on counter and timer run together (LastStretch), and as *)
(* the limit is less than a window the counter meets it before the window  *)
(* can end again.  A row that began above the limit goes on to the end of  *)
(* the window (AboveLimit) and meets the limit after it (ClearedStretch).  *)
(***************************************************************************)
FirstStretch == starts <= module_restart_cnt + 1

WithTimer == /\ module_restart_cnt >= 1
             /\ module_restart_timer = module_restart_cnt - 1

LastStretch == starts <= module_restart_cnt + max_restarts + 1 /\ WithTimer

AboveLimit == /\ module_restart_cnt > max_restarts
              /\ starts <= module_restart_cnt - max_restarts - 1

ClearedStretch == /\ module_restart_cnt <= max_restarts
                  /\ starts <= Periods - max_restarts - 1 + module_restart_cnt
                  /\ WithTimer

WithinLimit == module_restart_cnt <= max_restarts /\ (FirstStretch \/ LastStretch)

StretchInv ==
    max_restarts < Periods =>
        IF overrun THEN AboveLimit \/ ClearedStretch ELSE WithinLimit

(***************************************************************************)
(* Where a row begins, nothing has been started yet, and whether the count *)
(* is above the limit is what the history remembers.                       *)
(***************************************************************************)
LEMMA NewRowInv == TypeOK' /\ NewRow => StretchInv'
<1> SUFFICES ASSUME TypeOK', NewRow PROVE StretchInv'
    OBVIOUS
<1>1. /\ module_restart_cnt' \in Int /\ module_restart_cnt' >= -1
      /\ max_restarts' \in Int /\ starts' = 0
    BY LimitsAssumption DEF TypeOK, NewRow
<1>0. \A c, m \in Int : /\ c > m => 0 <= c - m - 1
                        /\ ~(c > m) => c <= m
                        /\ c >= -1 => 0 <= c + 1
    OBVIOUS
<1>2. module_restart_cnt' > max_restarts' => AboveLimit'
    BY <1>0, <1>1 DEF AboveLimit
<1>3. ~(module_restart_cnt' > max_restarts') => WithinLimit'
    BY <1>0, <1>1 DEF WithinLimit, FirstStretch
<1>4. overrun' <=> module_restart_cnt' > max_restarts'
    BY Zenon DEF NewRow
<1> QED BY <1>2, <1>3, <1>4 DEF StretchInv

(***************************************************************************)
(* Another start in the row, below or above the limit but never at it.     *)
(***************************************************************************)
LEMMA AnotherStartInv ==
    ASSUME TypeOK, CountWithinWindow, StretchInv, AnotherStart, ~AtLimit,
           max_restarts' = max_restarts,
           module_restart_cnt' = TickedCnt + 1,
           \/ module_restart_timer' = NextTimer(module_restart_timer)
           \/ TickedCnt = 0 /\ module_restart_timer' = 0
    PROVE  StretchInv'
<1> SUFFICES ASSUME max_restarts < Periods
             PROVE  IF overrun THEN AboveLimit' \/ ClearedStretch' ELSE WithinLimit'
    BY DEF StretchInv, AnotherStart
<1>0. /\ Periods \in Int /\ Periods > 0
      /\ module_restart_cnt \in Int /\ module_restart_cnt >= -1
      /\ module_restart_timer \in Int /\ module_restart_timer >= 0
      /\ module_restart_timer < Periods
      /\ max_restarts \in Int /\ max_restarts >= 0
      /\ starts \in Int /\ starts >= 0 /\ StartsCap \in Int
    BY PeriodsAssumption, LimitsAssumption DEF TypeOK, StartsCap
<1>1. starts' \in Int /\ starts' <= starts + 1
    BY <1>0 DEF AnotherStart, Counted
<1>2. TickedCnt \in Int /\ TickedCnt # max_restarts
    BY NextCntType DEF TypeOK, TickedCnt, AtLimit, LimitReached
<1>3. \/ TickedCnt = module_restart_cnt
      \/ /\ TickedCnt = 0 /\ module_restart_cnt > 0
         /\ WindowEnds(module_restart_timer) /\ module_restart_timer' = 0
    BY DEF TickedCnt, NextCnt, NextTimer
<1>4. WithTimer /\ TickedCnt = module_restart_cnt /\ module_restart_cnt < Periods
      => WithTimer'
    BY <1>0, <1>2 DEF WithTimer, NextTimer, WindowEnds
<1>5. CASE ~overrun
  <2>1. module_restart_cnt <= max_restarts /\ (FirstStretch \/ LastStretch)
      BY <1>5 DEF StretchInv, WithinLimit
  <2>2. module_restart_cnt' <= max_restarts'
      BY <1>0, <1>2, <1>3, <2>1
  <2>3. CASE TickedCnt = module_restart_cnt /\ FirstStretch
      BY <2>3, <2>2, <1>0, <1>1, <1>5 DEF FirstStretch, WithinLimit
  <2>4. CASE TickedCnt = module_restart_cnt /\ LastStretch
      BY <2>4, <2>1, <2>2, <1>0, <1>1, <1>4, <1>5 DEF LastStretch, WithinLimit
  <2>5. CASE TickedCnt # module_restart_cnt
    <3>1. ~WithTimer
        BY <2>5, <2>1, <1>0, <1>3 DEF WithTimer, WindowEnds
    <3>2. FirstStretch
        BY <3>1, <2>1 DEF LastStretch
    <3>3. LastStretch'
        BY <3>2, <2>1, <2>5, <1>0, <1>1, <1>3 DEF FirstStretch, LastStretch, WithTimer
    <3> QED BY <3>3, <2>2, <1>5 DEF WithinLimit
  <2> QED BY <2>1, <2>3, <2>4, <2>5
<1>6. CASE overrun /\ AboveLimit
  <2>1. CASE TickedCnt = module_restart_cnt
      BY <2>1, <1>0, <1>1, <1>6 DEF AboveLimit
  <2>2. CASE TickedCnt # module_restart_cnt
    <3>1. module_restart_cnt <= Periods
        BY <1>0 DEF CountWithinWindow
    <3> QED
        BY <3>1, <2>2, <1>0, <1>1, <1>2, <1>3, <1>6
        DEF AboveLimit, ClearedStretch, WithTimer
  <2> QED BY <2>1, <2>2
<1>7. CASE overrun /\ ClearedStretch
  <2>1. TickedCnt = module_restart_cnt
      BY <1>0, <1>3, <1>7 DEF ClearedStretch, WithTimer, WindowEnds
  <2> QED BY <2>1, <1>0, <1>1, <1>2, <1>4, <1>7 DEF ClearedStretch
<1> QED BY <1>5, <1>6, <1>7 DEF StretchInv, TypeOK

(***************************************************************************)
(* Every step begins a row or adds a start to the one under way.           *)
(***************************************************************************)
LEMMA StretchInvStep ==
    TypeOK /\ CountWithinWindow /\ StretchInv /\ [Next]_vars => StretchInv'
<1> SUFFICES ASSUME TypeOK, CountWithinWindow, StretchInv, [Next]_vars
             PROVE  StretchInv'
    OBVIOUS
<1>0. TypeOK'
    BY TypeOKStep
<1>1. CASE NewRow
    BY <1>0, <1>1, NewRowInv
<1>2. CASE Start
  <2>1. \/ module_restart_timer' = NextTimer(module_restart_timer)
        \/ TickedCnt = 0 /\ module_restart_timer' = 0
      BY <1>2, NextCntType DEF Start, TimerAfterStart, TypeOK, TickedCnt
  <2> QED BY <1>2, <2>1, AnotherStartInv DEF Start
<1>3. CASE ForkFails
    BY <1>3, AnotherStartInv DEF ForkFails, Tick
<1>4. CASE UNCHANGED vars
    BY <1>4
    DEF vars, StretchInv, AboveLimit, ClearedStretch, WithinLimit, FirstStretch,
        LastStretch, WithTimer
<1> QED
    BY <1>1, <1>2, <1>3, <1>4
    DEF Next, Cycle, GiveUp, Watch, KeepDown, SetEnabled, SetDisabled, ReloadLimit

(***************************************************************************)
(* README: "When the limit is reached, module is automatically set to      *)
(* disabled."  For every window and every limit below it, a module that    *)
(* dies in every cycle is started at most 2 * max + 1 times in a row, and  *)
(* if a reload lowered the limit below the count, at most one time less    *)
(* than the window has cycles.                                             *)
(***************************************************************************)
THEOREM StartsBounded == Spec => []RestartsBounded
<1>1. Init => StretchInv
    BY LimitsAssumption DEF Init, StretchInv, WithinLimit, FirstStretch
<1>2. TypeOK /\ CountWithinWindow /\ StretchInv /\ [Next]_vars => StretchInv'
    BY StretchInvStep
<1>3. TypeOK /\ CountWithinWindow /\ StretchInv => RestartsBounded
  <2> SUFFICES ASSUME TypeOK, CountWithinWindow, StretchInv, max_restarts < Periods
               PROVE  starts <= IF overrun THEN Periods - 1 ELSE 2 * max_restarts + 1
      BY DEF RestartsBounded
  <2>1. /\ Periods \in Int /\ max_restarts \in Int /\ max_restarts >= 0
        /\ module_restart_cnt \in Int /\ starts \in Int
        /\ module_restart_cnt <= Periods
      BY PeriodsAssumption, LimitsAssumption DEF TypeOK, StartsCap, CountWithinWindow
  <2>2. CASE overrun
      BY <2>1, <2>2 DEF StretchInv, AboveLimit, ClearedStretch
  <2>3. CASE ~overrun
      BY <2>1, <2>3 DEF StretchInv, WithinLimit, FirstStretch, LastStretch
  <2> QED BY <2>2, <2>3
<1> QED BY <1>1, <1>2, <1>3, TypeCorrect, CountStaysWithinWindow, PTL DEF Spec
=============================================================================
