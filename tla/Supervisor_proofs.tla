-------------------------- MODULE Supervisor_proofs --------------------------
(***************************************************************************)
(* The supervisor for every number of modules, identifiers, profiles and   *)
(* configurations: no process is forgotten, signals reach the module they  *)
(* are meant for, and SIGKILL comes after SIGINT.  At the end, that the    *)
(* processes, as the supervisor starts, signals and reaps them, go through *)
(* the stages of ProcessLifecycle.                                         *)
(***************************************************************************)
EXTENDS Supervisor, SequenceTheorems, TLAPS

Pid(m) == running_modules[m].module_pid

Status(m) == running_modules[m].module_status

\* The identifier is taken, by a process this supervisor may know.
InUse(p) == proc[p].state \notin {"free", "lost"}

\* A slot that is not in use records no process.
UnloadedInv == \A m \in Modules \ Loaded : Pid(m) = NoPid

\* A recorded identifier is the module's own, and no other slot has it.
OwnerInv ==
    \A m \in Modules : Pid(m) \in Pids =>
        /\ InUse(Pid(m)) => proc[Pid(m)].mod = m
        /\ \A n \in Modules : Pid(n) = Pid(m) => n = m

\* A module that is recorded as running has an identifier; in the middle of a
\* cycle the converse holds, too.
StatusInv ==
    /\ \A m \in Modules : running_modules[m].module_status => Pid(m) \in Pids
    /\ pc \notin {"load", "reload", "idle", "ended"} =>
          \A m \in Modules : Pid(m) \in Pids => running_modules[m].module_status

\* From a status check to the next reaping no recorded identifier is free, so
\* fork() cannot return one and kill() cannot miss its module.
FreshInv ==
    pc \in {"update", "sigint", "clean", "sigkill", "cleanagain"} =>
        \A m \in Modules : Pid(m) \in Pids => InUse(Pid(m))

\* While a backup is being loaded: the processes are those of its elements,
\* and the elements before y have been adopted.
LoadInv ==
    pc = "load" =>
        /\ UniqueNames(config)
        /\ y <= Len(config.modules) + 1
        /\ Loaded = {config.modules[i].name : i \in 1..(y - 1)}
        /\ \A i \in DOMAIN config.modules :
              LET e == config.modules[i]
              IN  /\ e.module_pid \in Pids => InUse(e.module_pid)
                                               /\ proc[e.module_pid].mod = e.name
                  /\ i < y => Pid(e.name) = e.module_pid
        /\ \A p \in Pids : InUse(p) =>
              \E i \in DOMAIN config.modules : config.modules[i].module_pid = p

\* sent_sigint is about the process the slot records now.
AskedInv ==
    \A m \in Modules \ Privileged :
        /\ running_modules[m].sent_sigint
        /\ Pid(m) \in Pids /\ Alive(Pid(m))
        => proc[Pid(m)].asked

\* A module is in the array once.
DistinctInv == \A i, j \in DOMAIN slots : slots[i] = slots[j] => i = j

IInv ==
    /\ TypeOK /\ UnloadedInv /\ OwnerInv /\ StatusInv /\ FreshInv /\ LoadInv
    /\ EveryProcessRecorded /\ AskedInv /\ AskedBeforeForced

-----------------------------------------------------------------------------
(* What the operators on records return. *)

(***************************************************************************)
(* The status check: afterwards a record has an identifier exactly if the  *)
(* process exists, and the status says the same.                           *)
(***************************************************************************)
LEMMA CheckedFacts ==
    ASSUME TypeOK, NEW m \in Modules, NEW r \in ModuleRecord
    PROVE  /\ Checked(r, m) \in ModuleRecord
           /\ Checked(r, m).sent_sigint = r.sent_sigint
           /\ r.module_pid \notin Pids =>
                 /\ Checked(r, m).module_pid = r.module_pid
                 /\ Checked(r, m).module_status = r.module_status
           /\ r.module_pid \in Pids /\ Exists(r.module_pid) =>
                 /\ Checked(r, m).module_pid = r.module_pid
                 /\ Checked(r, m).module_status
           /\ r.module_pid \in Pids /\ ~Exists(r.module_pid) =>
                 /\ Checked(r, m).module_pid = NoPid
                 /\ ~Checked(r, m).module_status
<1>1. Checked(r, m) \in ModuleRecord
  <2>1. (m \in Privileged) \in BOOLEAN
      OBVIOUS
  <2>2. ASSUME NEW b \in BOOLEAN
        PROVE  [r EXCEPT !.module_status = TRUE, !.module_root_perm_needed = b]
                   \in ModuleRecord
      BY Zenon DEF ModuleRecord
  <2>3. [r EXCEPT !.module_status = FALSE, !.module_pid = NoPid] \in ModuleRecord
      BY Zenon DEF ModuleRecord
  <2> QED BY <2>1, <2>2, <2>3 DEF Checked
<1> QED BY <1>1 DEF Checked, ModuleRecord

(***************************************************************************)
(* Ticking touches nothing but the limiter's fields.                       *)
(***************************************************************************)
LEMMA TickedFacts ==
    ASSUME NEW r \in ModuleRecord
    PROVE  /\ Ticked(r) \in ModuleRecord
           /\ Ticked(r).module_pid = r.module_pid
           /\ Ticked(r).module_status = r.module_status
           /\ Ticked(r).sent_sigint = r.sent_sigint
<1>1. /\ NextTimer(r.restart_timer) \in 0..(Periods - 1)
      /\ NextCnt(r.restart_cnt, r.restart_timer) \in Int
    BY PeriodsAssumption DEF ModuleRecord, NextTimer, NextCnt, WindowEnds
<1>2. Ticked(r) \in ModuleRecord
    BY <1>1, Zenon DEF Ticked, ModuleRecord
<1> QED BY <1>2 DEF Ticked, ModuleRecord

(***************************************************************************)
(* A start records what fork() returned and forgets that a process before  *)
(* was sent SIGINT.                                                        *)
(***************************************************************************)
LEMMA StartFacts ==
    ASSUME NEW r \in ModuleRecord, NEW child \in Pids \cup {ForkFailed}
    PROVE  /\ service_start_module(r, child) \in ModuleRecord
           /\ service_start_module(r, child).module_pid = child
           /\ service_start_module(r, child).module_status = (child # ForkFailed)
           /\ ~service_start_module(r, child).sent_sigint
<1> DEFINE i == init_module_variables(r)
           cnt == i.restart_cnt + 1
           s == [i EXCEPT !.module_pid = child,
                          !.module_status = child # ForkFailed,
                          !.restart_cnt = @ + 1]
           t == TimerAfterStart(r.restart_cnt, s.restart_timer)
           u == [s EXCEPT !.module_is_my_child = TRUE,
                          !.restart_timer = TimerAfterStart(r.restart_cnt, @)]
<1>1. i \in ModuleRecord
    BY Zenon DEF init_module_variables, ModuleRecord
<1>2. i.sent_sigint = FALSE
    BY DEF init_module_variables, ModuleRecord
<1> HIDE DEF i
<1>3. s \in ModuleRecord
  <2> DEFINE st == child # ForkFailed
  <2>1. cnt \in Int /\ st \in BOOLEAN /\ child \in Pids \cup {NoPid, ForkFailed}
      BY <1>1 DEF ModuleRecord
  <2> HIDE DEF cnt, st
  <2>2. [i EXCEPT !.module_pid = child, !.module_status = st,
                  !.restart_cnt = cnt] \in ModuleRecord
      BY <1>1, <2>1, ZenonT(40) DEF ModuleRecord
  <2> QED BY <2>2 DEF cnt, st
<1>4. /\ s.module_pid = child /\ s.module_status = (child # ForkFailed)
      /\ s.sent_sigint = FALSE
    BY <1>1, <1>2 DEF ModuleRecord
<1> HIDE DEF s
<1>5. u \in ModuleRecord
  <2>1. t \in 0..(Periods - 1)
      BY <1>3, PeriodsAssumption DEF TimerAfterStart, ModuleRecord
  <2>2. [s EXCEPT !.module_is_my_child = TRUE, !.restart_timer = t] \in ModuleRecord
      BY <1>3, <2>1, ZenonT(40) DEF ModuleRecord
  <2> QED BY <2>2
<1>6. /\ u.module_pid = s.module_pid /\ u.module_status = s.module_status
      /\ u.sent_sigint = s.sent_sigint
    BY <1>3 DEF ModuleRecord
<1>7. service_start_module(r, child) = IF child = ForkFailed THEN s ELSE u
    BY DEF service_start_module, s, i
<1> QED BY <1>3, <1>4, <1>5, <1>6, <1>7

(***************************************************************************)
(* The body of the serving loop leaves process and signals alone.          *)
(***************************************************************************)
LEMMA ServedFacts ==
    ASSUME NEW r \in ModuleRecord
    PROVE  /\ Served(r) \in ModuleRecord
           /\ Served(r).module_pid = r.module_pid
           /\ Served(r).module_status = r.module_status
           /\ Served(r).sent_sigint = r.sent_sigint
<1> DEFINE s == [r EXCEPT !.module_enabled = TRUE, !.restart_cnt = -1,
                          !.init_module = FALSE, !.served = TRUE]
           t == [r EXCEPT !.served = TRUE]
<1>1. s \in ModuleRecord /\ t \in ModuleRecord
  <2>1. -1 \in Int
      OBVIOUS
  <2> QED BY <2>1, ZenonT(40) DEF ModuleRecord
<1>2. /\ s.module_pid = r.module_pid /\ s.module_status = r.module_status
      /\ s.sent_sigint = r.sent_sigint
      /\ t.module_pid = r.module_pid /\ t.module_status = r.module_status
      /\ t.sent_sigint = r.sent_sigint
    BY DEF ModuleRecord
<1>3. Served(r) \in {r, s, t}
    BY DEF Served
<1> HIDE DEF s, t
<1> QED BY <1>1, <1>2, <1>3

(***************************************************************************)
(* So does the comparison of a module with its element.                    *)
(***************************************************************************)
LEMMA MergedFacts ==
    ASSUME NEW r \in ModuleRecord, NEW e \in ModuleElement, NEW new \in BOOLEAN
    PROVE  /\ Merged(r, e, new) \in ModuleRecord
           /\ Merged(r, e, new).module_pid = r.module_pid
           /\ Merged(r, e, new).module_status = r.module_status
           /\ Merged(r, e, new).sent_sigint = r.sent_sigint
<1>1. MergedParams(r, e) \in Params \cup {NoParams}
    BY SupervisorAssumption DEF MergedParams, ModuleRecord, ModuleElement
<1>2. ResolvedCnt(r, e, new) \in Int
    BY DEF ResolvedCnt, ModuleRecord
<1> DEFINE limit == IF e.max_restarts = -1 THEN r.max_restarts ELSE e.max_restarts
           modified == ~new /\ MergedParams(r, e) # r.module_params
           enabled == e.module_enabled /\ ~(modified /\ r.module_running)
           init == e.module_enabled /\ (modified /\ r.module_running)
           running == r.module_running /\ ~modified
           params == MergedParams(r, e)
           cnt == ResolvedCnt(r, e, new)
<1>3. /\ limit \in Limits \cup {-1, 0}
      /\ e.profile \in Profiles \cup {NoProfile}
    BY DEF ModuleRecord, ModuleElement
<1>4. enabled \in BOOLEAN /\ init \in BOOLEAN /\ running \in BOOLEAN
    BY DEF ModuleRecord, ModuleElement
<1>5. Merged(r, e, new) \in ModuleRecord
  <2> HIDE DEF limit, enabled, init, running, params, cnt
  <2> DEFINE s == [r EXCEPT !.module_enabled = enabled, !.init_module = init,
                            !.module_running = running]
             t == [s EXCEPT !.restart_cnt = cnt, !.max_restarts = limit]
  <2>1. s \in ModuleRecord
      BY <1>4, Zenon DEF ModuleRecord
  <2>2. cnt \in Int /\ params \in Params \cup {NoParams}
      BY <1>1, <1>2 DEF params, cnt
  <2> HIDE DEF s
  <2>3. t \in ModuleRecord
      BY <1>3, <2>1, <2>2, ZenonT(40) DEF ModuleRecord
  <2> HIDE DEF t
  <2>4. [t EXCEPT !.module_params = params, !.profile = e.profile] \in ModuleRecord
      BY <1>3, <2>2, <2>3, ZenonT(40) DEF ModuleRecord
  <2>5. Merged(r, e, new) = [t EXCEPT !.module_params = params, !.profile = e.profile]
      BY DEF Merged, s, t, limit, enabled, init, running, params, cnt
  <2> QED BY <2>4, <2>5
<1> QED BY <1>5 DEF Merged, ModuleRecord

(***************************************************************************)
(* Adoption records the process of the backup as one not yet signalled.    *)
(***************************************************************************)
LEMMA AdoptedFacts ==
    ASSUME NEW r \in ModuleRecord, NEW pid \in Pids \cup {NoPid, ForkFailed}
    PROVE  /\ Adopted(r, pid) \in ModuleRecord
           /\ Adopted(r, pid).module_pid = IF pid = NoPid THEN r.module_pid ELSE pid
           /\ Adopted(r, pid).module_status = r.module_status
           /\ pid \in Pids => ~Adopted(r, pid).sent_sigint
           /\ pid \notin Pids => Adopted(r, pid).sent_sigint = r.sent_sigint
<1> DEFINE i == init_module_variables(r)
           s == [i EXCEPT !.module_pid = pid]
           t == [r EXCEPT !.module_pid = pid]
<1>1. i \in ModuleRecord
    BY Zenon DEF init_module_variables, ModuleRecord
<1>2. i.module_status = r.module_status /\ i.sent_sigint = FALSE
    BY DEF init_module_variables, ModuleRecord
<1> HIDE DEF i
<1>3. s \in ModuleRecord /\ t \in ModuleRecord
    BY <1>1 DEF ModuleRecord
<1>4. /\ s.module_pid = pid /\ s.module_status = r.module_status /\ s.sent_sigint = FALSE
      /\ t.module_pid = pid /\ t.module_status = r.module_status
      /\ t.sent_sigint = r.sent_sigint
    BY <1>1, <1>2 DEF ModuleRecord
<1>5. Adopted(r, pid) = IF pid \in Pids THEN s ELSE IF pid = NoPid THEN r ELSE t
    BY DEF Adopted, i
<1> HIDE DEF s, t
<1> QED BY <1>3, <1>4, <1>5, SupervisorAssumption

(***************************************************************************)
(* A slot that is handed to a new module is in order, and empty.           *)
(***************************************************************************)
LEMMA SlotFacts ==
    /\ EmptySlot \in ModuleRecord /\ GrownSlot \in ModuleRecord
    /\ EmptySlot.module_pid = NoPid /\ GrownSlot.module_pid = NoPid
    /\ ~EmptySlot.module_status /\ ~GrownSlot.module_status
    /\ ~EmptySlot.sent_sigint /\ ~GrownSlot.sent_sigint
<1>1. EmptySlot \in ModuleRecord
    BY PeriodsAssumption DEF EmptySlot, ModuleRecord
<1>2. GrownSlot \in ModuleRecord
    BY <1>1, Zenon DEF GrownSlot, ModuleRecord
<1>3. /\ EmptySlot.module_pid = NoPid /\ EmptySlot.module_status = FALSE
      /\ EmptySlot.sent_sigint = FALSE
    BY DEF EmptySlot
<1>4. /\ GrownSlot.module_pid = NoPid /\ GrownSlot.module_status = FALSE
      /\ GrownSlot.sent_sigint = FALSE
    BY <1>1, <1>3 DEF GrownSlot, ModuleRecord
<1> QED BY <1>1, <1>2, <1>3, <1>4

(***************************************************************************)
(* The entries of the process table.                                       *)
(***************************************************************************)
LEMMA ProcessFacts ==
    /\ FreeProcess \in Process /\ FreeProcess.state = "free"
    /\ FreeProcess.forced = FALSE
    /\ \A m \in Modules, a \in Params \cup {NoParams}, c \in BOOLEAN :
          /\ ProcessOf(m, a, c) \in Process
          /\ ProcessOf(m, a, c).state = "alive"
          /\ ProcessOf(m, a, c).mod = m
          /\ ProcessOf(m, a, c).forced = FALSE
    /\ \A q \in Process :
          /\ Ended(q) \in Process
          /\ Ended(q).state \in {"zombie", "gone"}
          /\ Ended(q).mod = q.mod
          /\ Ended(q).forced = FALSE
<1>1. (CHOOSE m \in Modules : TRUE) \in Modules
    BY SupervisorAssumption
<1>2. /\ FreeProcess \in Process /\ FreeProcess.state = "free"
      /\ FreeProcess.forced = FALSE
    BY <1>1 DEF FreeProcess, Process
<1>3. ASSUME NEW m \in Modules, NEW a \in Params \cup {NoParams}, NEW c \in BOOLEAN
      PROVE  /\ ProcessOf(m, a, c) \in Process
             /\ ProcessOf(m, a, c).state = "alive"
             /\ ProcessOf(m, a, c).mod = m
             /\ ProcessOf(m, a, c).forced = FALSE
    BY DEF ProcessOf, Process
<1>4. ASSUME NEW q \in Process
      PROVE  /\ Ended(q) \in Process
             /\ Ended(q).state \in {"zombie", "gone"}
             /\ Ended(q).mod = q.mod
             /\ Ended(q).forced = FALSE
  <2> DEFINE st == IF q.child THEN "zombie" ELSE "gone"
  <2>1. st \in {"zombie", "gone"} /\ q.mod \in Modules /\ q.child \in BOOLEAN
      BY DEF Process
  <2> HIDE DEF st
  <2>2. [FreeProcess EXCEPT !.state = st, !.mod = q.mod, !.child = q.child] \in Process
      BY <1>2, <2>1, Zenon DEF Process
  <2>3. Ended(q) = [FreeProcess EXCEPT !.state = st, !.mod = q.mod, !.child = q.child]
      BY DEF Ended, st
  <2> QED BY <1>2, <2>1, <2>2, <2>3 DEF Process
<1> QED BY <1>2, <1>3, <1>4

-----------------------------------------------------------------------------
(* Types. *)

(***************************************************************************)
(* Single fields that the service thread and the commands overwrite.       *)
(***************************************************************************)
LEMMA FieldFacts ==
    ASSUME NEW r \in ModuleRecord
    PROVE  /\ [r EXCEPT !.module_enabled = FALSE] \in ModuleRecord
           /\ [r EXCEPT !.module_is_my_child = FALSE] \in ModuleRecord
           /\ [r EXCEPT !.restart_cnt = -1] \in ModuleRecord
           /\ [r EXCEPT !.served = FALSE] \in ModuleRecord
           /\ [r EXCEPT !.sent_sigint = TRUE, !.restart_cnt = -1] \in ModuleRecord
           /\ [r EXCEPT !.module_enabled = TRUE, !.restart_cnt = -1] \in ModuleRecord
           /\ [r EXCEPT !.served = FALSE, !.module_enabled = FALSE,
                        !.init_module = TRUE] \in ModuleRecord
           /\ [r EXCEPT !.served = FALSE, !.module_enabled = FALSE,
                        !.remove_module = TRUE] \in ModuleRecord
<1>1. -1 \in Int
    OBVIOUS
<1>2. /\ [r EXCEPT !.module_enabled = FALSE] \in ModuleRecord
      /\ [r EXCEPT !.module_is_my_child = FALSE] \in ModuleRecord
      /\ [r EXCEPT !.restart_cnt = -1] \in ModuleRecord
      /\ [r EXCEPT !.served = FALSE] \in ModuleRecord
    BY <1>1, ZenonT(40) DEF ModuleRecord
<1>3. [r EXCEPT !.sent_sigint = TRUE, !.restart_cnt = -1] \in ModuleRecord
    BY <1>1, Zenon DEF ModuleRecord
<1>4. [r EXCEPT !.module_enabled = TRUE, !.restart_cnt = -1] \in ModuleRecord
    BY <1>1, Zenon DEF ModuleRecord
<1>5. [r EXCEPT !.served = FALSE, !.module_enabled = FALSE,
                !.init_module = TRUE] \in ModuleRecord
    BY Zenon DEF ModuleRecord
<1>6. [r EXCEPT !.served = FALSE, !.module_enabled = FALSE,
                !.remove_module = TRUE] \in ModuleRecord
    BY Zenon DEF ModuleRecord
<1> QED BY <1>2, <1>3, <1>4, <1>5, <1>6

(***************************************************************************)
(* The reset loop of the reload.                                           *)
(***************************************************************************)
LEMMA ResetFacts ==
    ASSUME NEW r \in ModuleRecord
    PROVE  /\ Reset(r) \in ModuleRecord
           /\ Reset(r).module_pid = r.module_pid
           /\ Reset(r).module_status = r.module_status
           /\ Reset(r).sent_sigint = r.sent_sigint
<1>1. ASSUME NEW x \in ModuleRecord
      PROVE  [x EXCEPT !.profile = NoProfile, !.max_restarts = -1,
                       !.module_is_my_child = TRUE] \in ModuleRecord
    BY Zenon DEF ModuleRecord
<1>2. ASSUME NEW x \in ModuleRecord
      PROVE  /\ [x EXCEPT !.module_root_perm_needed = FALSE] \in ModuleRecord
             /\ [x EXCEPT !.init_module = FALSE, !.remove_module = FALSE] \in ModuleRecord
  <2>1. [x EXCEPT !.module_root_perm_needed = FALSE] \in ModuleRecord
      BY ZenonT(40) DEF ModuleRecord
  <2>2. [x EXCEPT !.init_module = FALSE, !.remove_module = FALSE] \in ModuleRecord
      BY ZenonT(40) DEF ModuleRecord
  <2> QED BY <2>1, <2>2
<1> DEFINE t == [r EXCEPT !.profile = NoProfile, !.max_restarts = -1,
                          !.module_is_my_child = TRUE]
           v == [t EXCEPT !.module_root_perm_needed = FALSE]
           u == [v EXCEPT !.init_module = FALSE, !.remove_module = FALSE]
<1>3. Reset(r) = u
    BY DEF Reset
<1>4. /\ Reset(r).module_pid = r.module_pid
      /\ Reset(r).module_status = r.module_status
      /\ Reset(r).sent_sigint = r.sent_sigint
    BY DEF ModuleRecord, Reset
<1>5. t \in ModuleRecord
    BY <1>1
<1>6. v \in ModuleRecord
  <2> HIDE DEF t
  <2> QED BY <1>2, <1>5
<1>7. u \in ModuleRecord
  <2> HIDE DEF v
  <2> QED BY <1>2, <1>6
<1> QED BY <1>3, <1>4, <1>7

(***************************************************************************)
(* A signal leaves a mark on a process and nothing else.                   *)
(***************************************************************************)
LEMMA SignalFacts ==
    ASSUME NEW q \in Process
    PROVE  /\ [q EXCEPT !.asked = TRUE] \in Process
           /\ [q EXCEPT !.asked = TRUE].state = q.state
           /\ [q EXCEPT !.asked = TRUE].mod = q.mod
           /\ [q EXCEPT !.asked = TRUE].asked
           /\ [q EXCEPT !.asked = TRUE].forced = q.forced
           /\ [q EXCEPT !.forced = TRUE] \in Process
           /\ [q EXCEPT !.forced = TRUE].state = q.state
           /\ [q EXCEPT !.forced = TRUE].mod = q.mod
           /\ [q EXCEPT !.forced = TRUE].asked = q.asked
BY DEF Process

-----------------------------------------------------------------------------
(* Types are preserved, one lemma for each action with a body of its own.   *)

(***************************************************************************)
(* The array holds module names only.                                      *)
(***************************************************************************)
LEMMA LoadedModules == TypeOK => Loaded \subseteq Modules
BY ElementOfSeq DEF TypeOK, Loaded

(***************************************************************************)
(* The status check keeps records and process table in order.              *)
(***************************************************************************)
LEMMA CheckType ==
    ASSUME TypeOK, service_check_modules_status, pc' \in Places
    PROVE  TypeOK'
<1>1. running_modules' \in [Modules -> ModuleRecord]
  <2>1. \A m \in Modules : Checked(running_modules[m], m) \in ModuleRecord
      BY CheckedFacts DEF TypeOK
  <2> QED BY <2>1 DEF service_check_modules_status
<1>2. proc' \in [Pids -> Process]
    BY ProcessFacts DEF TypeOK, service_check_modules_status
<1> QED BY <1>1, <1>2 DEF TypeOK, service_check_modules_status, tables

(***************************************************************************)
(* Starting modules does, too: what fork() returns is an identifier or -1. *)
(***************************************************************************)
LEMMA UpdateType ==
    ASSUME TypeOK, service_update_modules_status, pc' \in Places
    PROVE  TypeOK'
<1>1. PICK child \in [ToStart -> FreePids \cup {ForkFailed}] :
        /\ running_modules' = [m \in Modules |->
              LET r == Ticked(running_modules[m])
              IN  IF m \in ToStart THEN service_start_module(r, child[m])
                  ELSE IF m \in OutOfRestarts
                       THEN [r EXCEPT !.module_enabled = FALSE]
                  ELSE IF m \in Loaded THEN r
                  ELSE running_modules[m]]
        /\ proc' = [p \in Pids |->
              IF \E m \in ToStart : child[m] = p
              THEN LET m == CHOOSE m \in ToStart : child[m] = p
                   IN  ProcessOf(m, running_modules[m].module_params, TRUE)
              ELSE proc[p]]
    BY DEF service_update_modules_status
<1>2. ToStart \subseteq Modules
    BY LoadedModules DEF ToStart, Down
<1>3. running_modules' \in [Modules -> ModuleRecord]
  <2>1. ASSUME NEW m \in Modules
        PROVE  /\ Ticked(running_modules[m]) \in ModuleRecord
               /\ [Ticked(running_modules[m]) EXCEPT !.module_enabled = FALSE]
                     \in ModuleRecord
               /\ m \in ToStart =>
                     service_start_module(Ticked(running_modules[m]), child[m])
                         \in ModuleRecord
    <3>1. Ticked(running_modules[m]) \in ModuleRecord
        BY TickedFacts DEF TypeOK
    <3>2. [Ticked(running_modules[m]) EXCEPT !.module_enabled = FALSE] \in ModuleRecord
        BY <3>1, FieldFacts
    <3>3. m \in ToStart => child[m] \in Pids \cup {ForkFailed}
        BY DEF FreePids
    <3> QED BY <3>1, <3>2, <3>3, StartFacts
  <2>2. \A m \in Modules : running_modules[m] \in ModuleRecord
      BY DEF TypeOK
  <2> QED BY <1>1, <2>1, <2>2
<1>4. proc' \in [Pids -> Process]
  <2>1. ASSUME NEW p \in Pids, \E m \in ToStart : child[m] = p
        PROVE  LET m == CHOOSE m \in ToStart : child[m] = p
               IN  ProcessOf(m, running_modules[m].module_params, TRUE) \in Process
    <3> DEFINE n == CHOOSE m \in ToStart : child[m] = p
    <3>1. n \in Modules
        BY <1>2, <2>1
    <3> HIDE DEF n
    <3>2. running_modules[n].module_params \in Params \cup {NoParams}
        BY <3>1 DEF TypeOK, ModuleRecord
    <3>3. ProcessOf(n, running_modules[n].module_params, TRUE) \in Process
        BY <3>1, <3>2, ProcessFacts
    <3> QED BY <3>3 DEF n
  <2>2. \A p \in Pids : proc[p] \in Process
      BY DEF TypeOK
  <2> QED BY <1>1, <2>1, <2>2, ZenonT(40)
<1>5. UNCHANGED <<slots, array_size, prepared, profile_enabled, restarts_config,
                  config, y>>
    BY DEF service_update_modules_status, tables
<1> QED BY <1>3, <1>4, <1>5 DEF TypeOK

(***************************************************************************)
(* The SIGINT pass only marks records and processes.                       *)
(***************************************************************************)
LEMMA SigintType ==
    ASSUME TypeOK, service_stop_modules_sigint, pc' \in Places
    PROVE  TypeOK'
<1>1. running_modules' \in [Modules -> ModuleRecord]
    BY FieldFacts DEF TypeOK, service_stop_modules_sigint, Update
<1>2. proc' \in [Pids -> Process]
    BY SignalFacts DEF TypeOK, service_stop_modules_sigint
<1> QED BY <1>1, <1>2 DEF TypeOK, service_stop_modules_sigint, tables

(***************************************************************************)
(* So does the SIGKILL pass.                                               *)
(***************************************************************************)
LEMMA SigkillType ==
    ASSUME TypeOK, service_stop_modules_sigkill, pc' \in Places
    PROVE  TypeOK'
<1>1. running_modules' \in [Modules -> ModuleRecord]
    BY FieldFacts DEF TypeOK, service_stop_modules_sigkill, Update
<1>2. proc' \in [Pids -> Process]
    BY SignalFacts DEF TypeOK, service_stop_modules_sigkill
<1> QED BY <1>1, <1>2 DEF TypeOK, service_stop_modules_sigkill, tables

(***************************************************************************)
(* Reaping frees entries of the process table and clears a flag.           *)
(***************************************************************************)
LEMMA CleanType ==
    ASSUME TypeOK, service_clean_after_children, pc' \in Places
    PROVE  TypeOK'
<1>1. running_modules' \in [Modules -> ModuleRecord]
    BY FieldFacts DEF TypeOK, service_clean_after_children, Update
<1>2. proc' \in [Pids -> Process]
    BY ProcessFacts DEF TypeOK, service_clean_after_children
<1> QED BY <1>1, <1>2 DEF TypeOK, service_clean_after_children, tables

(***************************************************************************)
(* Removing one element from the array keeps the others and their order,   *)
(* so no other module disappears.                                          *)
(***************************************************************************)
LEMMA ShiftFacts ==
    ASSUME NEW s \in Seq(Modules), NEW k \in 1..Len(s)
    PROVE  LET t == SubSeq(s, 1, k - 1) \o SubSeq(s, k + 1, Len(s))
           IN  /\ t \in Seq(Modules)
               /\ \A i \in DOMAIN s : i # k => \E j \in DOMAIN t : t[j] = s[i]
               /\ DOMAIN t = 1..(Len(s) - 1)
               /\ \A i \in DOMAIN t : t[i] = IF i < k THEN s[i] ELSE s[i + 1]
<1> DEFINE a == SubSeq(s, 1, k - 1)
           b == SubSeq(s, k + 1, Len(s))
           t == a \o b
<1>1. /\ Len(s) \in Nat /\ DOMAIN s = 1..Len(s)
      /\ \A i \in 1..Len(s) : s[i] \in Modules
    BY LenProperties, ElementOfSeq
<1>2. /\ a \in Seq(Modules) /\ Len(a) = k - 1
      /\ \A i \in 1..(k - 1) : a[i] = s[i]
  <2>1. /\ a \in Seq(Modules)
        /\ Len(a) = IF 1 <= k - 1 THEN (k - 1) - 1 + 1 ELSE 0
        /\ \A i \in 1..((k - 1) - 1 + 1) : a[i] = s[1 + i - 1]
    <3>1. \A i \in 1..(k - 1) : s[i] \in Modules
        BY <1>1
    <3>2. k - 1 \in Int /\ 1 \in Int
        OBVIOUS
    <3> QED BY <3>1, <3>2, SubSeqProperties
  <2> HIDE DEF a
  <2> QED BY <2>1
<1>3. /\ b \in Seq(Modules) /\ Len(b) = Len(s) - k
      /\ \A i \in 1..(Len(s) - k) : b[i] = s[k + i]
  <2>1. /\ b \in Seq(Modules)
        /\ Len(b) = IF k + 1 <= Len(s) THEN Len(s) - (k + 1) + 1 ELSE 0
        /\ \A i \in 1..(Len(s) - (k + 1) + 1) : b[i] = s[(k + 1) + i - 1]
    <3>1. \A i \in (k + 1)..Len(s) : s[i] \in Modules
        BY <1>1
    <3>2. k + 1 \in Int /\ Len(s) \in Int
        BY <1>1
    <3> QED BY <3>1, <3>2, SubSeqProperties
  <2> HIDE DEF b
  <2>2. Len(b) = Len(s) - k
    <3>1. CASE k + 1 <= Len(s)
        BY <1>1, <2>1, <3>1
    <3>2. CASE ~(k + 1 <= Len(s))
      <4>1. k \in Int /\ k <= Len(s) /\ Len(s) \in Int
          BY <1>1
      <4>2. k = Len(s)
          BY <3>2, <4>1
      <4>3. Len(s) - k = 0
          BY <4>1, <4>2
      <4> QED BY <2>1, <3>2, <4>3
    <3> QED BY <3>1, <3>2
  <2>3. ASSUME NEW i \in 1..(Len(s) - k)
        PROVE  b[i] = s[k + i]
    <3>1. i \in 1..(Len(s) - (k + 1) + 1) /\ (k + 1) + i - 1 = k + i
        BY <1>1
    <3>2. b[i] = s[(k + 1) + i - 1]
        BY <2>1, <3>1, Zenon
    <3> QED BY <3>1, <3>2, Zenon
  <2> QED BY <2>1, <2>2, <2>3
<1> HIDE DEF a, b
<1>4. /\ t \in Seq(Modules) /\ Len(t) = Len(s) - 1
      /\ \A i \in 1..(Len(s) - 1) : t[i] = IF i <= k - 1 THEN a[i] ELSE b[i - (k - 1)]
  <2>1. /\ t \in Seq(Modules) /\ Len(t) = Len(a) + Len(b)
        /\ \A i \in 1..(Len(a) + Len(b)) : t[i] = IF i <= Len(a) THEN a[i] ELSE b[i - Len(a)]
      BY <1>2, <1>3, ConcatProperties
  <2> HIDE DEF t
  <2> QED BY <1>1, <1>2, <1>3, <2>1
<1>5. DOMAIN t = 1..(Len(s) - 1)
    BY <1>4, LenProperties
<1> HIDE DEF t
<1>6. ASSUME NEW i \in DOMAIN s, i # k
      PROVE  \E j \in DOMAIN t : t[j] = s[i]
  <2>1. CASE i < k
    <3>1. i \in DOMAIN t /\ t[i] = s[i]
        BY <1>1, <1>2, <1>4, <1>5, <1>6, <2>1
    <3> QED BY <3>1
  <2>2. CASE i > k
    <3>1. i - 1 \in DOMAIN t /\ t[i - 1] = b[i - k]
        BY <1>1, <1>4, <1>5, <2>2
    <3>2. i - k \in 1..(Len(s) - k) /\ k + (i - k) = i
        BY <1>1, <2>2
    <3>3. b[i - k] = s[k + (i - k)]
        BY <1>3, <3>2, Zenon
    <3>4. b[i - k] = s[i]
        BY <3>2, <3>3, Zenon
    <3> QED BY <3>1, <3>4
  <2> QED BY <1>1, <1>6, <2>1, <2>2
<1>7. ASSUME NEW i \in DOMAIN t
      PROVE  t[i] = IF i < k THEN s[i] ELSE s[i + 1]
  <2>1. CASE i < k
      BY <1>1, <1>2, <1>4, <1>5, <2>1
  <2>2. CASE ~(i < k)
    <3>1. t[i] = b[i - (k - 1)] /\ i - (k - 1) \in 1..(Len(s) - k)
        BY <1>1, <1>4, <1>5, <2>2
    <3>2. b[i - (k - 1)] = s[k + (i - (k - 1))] /\ k + (i - (k - 1)) = i + 1
        BY <1>1, <1>3, <1>5, <3>1
    <3> QED BY <2>2, <3>1, <3>2
  <2> QED BY <2>1, <2>2
<1>8. /\ t \in Seq(Modules)
      /\ \A i \in DOMAIN s : i # k => \E j \in DOMAIN t : t[j] = s[i]
      /\ DOMAIN t = 1..(Len(s) - 1)
      /\ \A i \in DOMAIN t : t[i] = IF i < k THEN s[i] ELSE s[i + 1]
    BY <1>4, <1>5, <1>6, <1>7
<1> QED BY <1>8 DEF t, a, b

(***************************************************************************)
(* The serving loop stays inside the array, also when a slot is freed and  *)
(* the others move up.                                                     *)
(***************************************************************************)
LEMMA ServeType ==
    ASSUME TypeOK, ServeModule
    PROVE  TypeOK'
<1>1. y \in 1..Len(slots) /\ slots[y] \in Modules
    BY LenProperties, ElementOfSeq DEF TypeOK, ServeModule
<1>2. CASE Removable(running_modules[slots[y]])
  <2>1. slots' \in Seq(Modules)
    <3>1. slots \in Seq(Modules)
        BY DEF TypeOK
    <3>2. SubSeq(slots, 1, y - 1) \o SubSeq(slots, y + 1, Len(slots)) \in Seq(Modules)
        BY <1>1, <3>1, ShiftFacts
    <3> QED BY <1>2, <3>2 DEF ServeModule, free_module_and_shift_array
  <2>2. running_modules' \in [Modules -> ModuleRecord]
      BY <1>1, <1>2, SlotFacts DEF TypeOK, ServeModule, free_module_and_shift_array
  <2> QED BY <2>1, <2>2 DEF TypeOK, ServeModule
<1>3. CASE ~Removable(running_modules[slots[y]])
  <2>1. Served(running_modules[slots[y]]) \in ModuleRecord
      BY <1>1, ServedFacts DEF TypeOK
  <2>2. running_modules' \in [Modules -> ModuleRecord]
      BY <1>1, <1>3, <2>1 DEF TypeOK, ServeModule
  <2> QED BY <1>3, <2>2 DEF TypeOK, ServeModule
<1> QED BY <1>2, <1>3

(***************************************************************************)
(* Every step of the service thread preserves the types.                   *)
(***************************************************************************)
LEMMA ServiceType == TypeOK /\ ServiceStep => TypeOK'
<1> SUFFICES ASSUME TypeOK, ServiceStep PROVE TypeOK'
    OBVIOUS
<1>1. CASE service_check_modules_status /\ pc' \in {"update", "sigkill", "receive", "idle"}
    BY <1>1, CheckType DEF Places
<1>2. CASE Go("update", "sigint") /\ service_update_modules_status
    BY <1>2, UpdateType DEF Go, Places
<1>3. CASE Go("sigint", "clean") /\ service_stop_modules_sigint
    BY <1>3, SigintType DEF Go, Places
<1>4. CASE Go("sigkill", "cleanagain") /\ service_stop_modules_sigkill
    BY <1>4, SigkillType DEF Go, Places
<1>5. CASE service_clean_after_children /\ pc' \in {"check", "serve"}
    BY <1>5, CleanType DEF Places
<1>6. CASE ServeModule
    BY <1>6, ServeType
<1>7. CASE ServeDone
    BY <1>7 DEF ServeDone, Go, TypeOK, Places, tables
<1> QED BY <1>1, <1>2, <1>3, <1>4, <1>5, <1>6, <1>7 DEF ServiceStep, Go

(***************************************************************************)
(* So does every command, a reload's beginning included.                   *)
(***************************************************************************)
LEMMA CommandType == TypeOK /\ Command => TypeOK'
<1> SUFFICES ASSUME TypeOK, Command PROVE TypeOK'
    OBVIOUS
<1>1. ASSUME NEW m \in Modules,
             \/ interactive_set_enabled(m)
             \/ interactive_set_disabled(m)
             \/ interactive_restart_module(m)
      PROVE  TypeOK'
  <2>1. running_modules' \in [Modules -> ModuleRecord]
    <3>1. CASE interactive_set_enabled(m)
        BY <3>1, FieldFacts DEF TypeOK, interactive_set_enabled, Update
    <3>2. CASE interactive_set_disabled(m)
        BY <3>2, FieldFacts DEF TypeOK, interactive_set_disabled, Update
    <3>3. CASE interactive_restart_module(m)
        BY <3>3, FieldFacts DEF TypeOK, interactive_restart_module, Update
    <3> QED BY <1>1, <3>1, <3>2, <3>3
  <2> QED BY <1>1, <2>1 DEF TypeOK, interactive_set_enabled,
          interactive_set_disabled, interactive_restart_module, tables
<1>2. CASE \E f \in Profiles : SetProfile(f)
    BY <1>2 DEF TypeOK, SetProfile
<1>3. ASSUME NEW c \in Configs, ReloadBegin(c)
      PROVE  TypeOK'
  <2>1. c \in Configuration /\ restarts_config' \in Nat
      BY <1>3, ConfigsAssumption, SupervisorAssumption
         DEF ReloadBegin, TypeOK, Configuration
  <2>2. running_modules' \in [Modules -> ModuleRecord]
      BY <1>3, ResetFacts DEF TypeOK, ReloadBegin
  <2>3. profile_enabled' \in [Profiles -> BOOLEAN]
      BY <1>3, <2>1 DEF ReloadBegin, Configuration
  <2> QED BY <1>3, <2>1, <2>2, <2>3 DEF TypeOK, ReloadBegin, Places
<1> QED BY <1>1, <1>2, <1>3 DEF Command

(***************************************************************************)
(* The element and the record a step of the reload works on.               *)
(***************************************************************************)
Element == config.modules[y]

Fresh == Element.name \notin Loaded

Before == IF ~Fresh THEN running_modules[Element.name]
          ELSE IF Len(slots) >= prepared THEN GrownSlot ELSE EmptySlot

After == Adopted(Merged(Before, Element, Fresh), BackupPid(Element))

(***************************************************************************)
(* What one step of the reload does to the slot of its element.            *)
(***************************************************************************)
LEMMA ReloadFacts ==
    ASSUME TypeOK, ReloadModule
    PROVE  /\ y \in DOMAIN config.modules
           /\ Element \in ModuleElement /\ Element.name \in Modules
           /\ Before \in ModuleRecord
           /\ After \in ModuleRecord
           /\ After.module_pid = IF BackupPid(Element) = NoPid
                                 THEN Before.module_pid ELSE BackupPid(Element)
           /\ After.module_status = Before.module_status
           /\ BackupPid(Element) \in Pids => ~After.sent_sigint
           /\ BackupPid(Element) \notin Pids => After.sent_sigint = Before.sent_sigint
           /\ slots' = IF Fresh THEN Append(slots, Element.name) ELSE slots
           /\ running_modules' = [running_modules EXCEPT ![Element.name] = After]
<1>1. config.modules \in Seq(ModuleElement)
    BY DEF TypeOK, Configuration
<1>2. y \in 1..Len(config.modules) /\ 1..Len(config.modules) = DOMAIN config.modules
    BY <1>1, LenProperties DEF TypeOK, ReloadModule
<1>3. Element \in ModuleElement
    BY <1>1, <1>2, ElementOfSeq DEF Element
<1>4. Element.name \in Modules /\ BackupPid(Element) \in Pids \cup {NoPid, ForkFailed}
    BY <1>3 DEF ModuleElement, BackupPid
<1>5. Before \in ModuleRecord
    BY <1>4, SlotFacts DEF Before, TypeOK
<1>6. Fresh \in BOOLEAN
    BY DEF Fresh
<1> DEFINE r == Merged(Before, Element, Fresh)
<1>7. /\ r \in ModuleRecord /\ r.module_pid = Before.module_pid
      /\ r.module_status = Before.module_status
      /\ r.sent_sigint = Before.sent_sigint
    BY <1>3, <1>5, <1>6, MergedFacts
<1>8. After = Adopted(r, BackupPid(Element))
    BY DEF After
<1>9. /\ slots' = IF Fresh THEN Append(slots, Element.name) ELSE slots
      /\ running_modules' = [running_modules EXCEPT ![Element.name] = After]
    BY DEF ReloadModule, After, Before, Fresh, Element
<1> HIDE DEF r
<1> QED BY <1>2, <1>3, <1>4, <1>5, <1>7, <1>8, <1>9, AdoptedFacts

(***************************************************************************)
(* The empty document is one.                                              *)
(***************************************************************************)
LEMMA NoDocumentFacts ==
    NoDocument \in Configuration /\ DOMAIN NoDocument.modules = {}
<1>1. <<>> \in Seq(ModuleElement)
    BY EmptySeq
<1> QED BY <1>1 DEF NoDocument, Configuration

(***************************************************************************)
(* A reload preserves the types, array growth included.                    *)
(***************************************************************************)
LEMMA ReloadType == TypeOK /\ Reload => TypeOK'
<1> SUFFICES ASSUME TypeOK, Reload PROVE TypeOK'
    OBVIOUS
<1>1. CASE ReloadModule
  <2>1. slots' \in Seq(Modules)
      BY <1>1, ReloadFacts, AppendProperties DEF TypeOK
  <2>2. running_modules' \in [Modules -> ModuleRecord]
      BY <1>1, ReloadFacts DEF TypeOK
  <2>3. array_size' \in Nat
      BY <1>1 DEF TypeOK, ReloadModule, check_running_modules_allocated_memory
  <2>4. y' \in Nat \ {0} /\ pc' \in Places
      BY <1>1 DEF TypeOK, ReloadModule
  <2>5. UNCHANGED <<prepared, profile_enabled, restarts_config, config, proc>>
      BY <1>1 DEF ReloadModule
  <2> QED BY <2>1, <2>2, <2>3, <2>4, <2>5 DEF TypeOK
<1>2. CASE ReloadEnd
  <2>1. running_modules' \in [Modules -> ModuleRecord]
      BY <1>2, FieldFacts DEF TypeOK, ReloadEnd
  <2>2. pc' \in Places /\ y' \in Nat \ {0}
    <3>1. pc' = "idle" /\ y' = 1
        BY <1>2 DEF ReloadEnd
    <3> QED BY <3>1 DEF Places
  <2>3. /\ config' = NoDocument
        /\ UNCHANGED <<slots, array_size, prepared, profile_enabled, restarts_config,
                       proc>>
      BY <1>2 DEF ReloadEnd
  <2> QED BY <2>1, <2>2, <2>3, NoDocumentFacts DEF TypeOK
<1> QED BY <1>1, <1>2 DEF Reload

(***************************************************************************)
(* The end of a process leaves an entry of the table behind.               *)
(***************************************************************************)
LEMMA ExitType ==
    ASSUME TypeOK, NEW p \in Pids, Exit(p)
    PROVE  TypeOK'
BY ProcessFacts DEF TypeOK, Exit, tables

(***************************************************************************)
(* Types are preserved by every step.                                      *)
(***************************************************************************)
LEMMA NextType == TypeOK /\ [Next]_vars => TypeOK'
<1>1. TypeOK /\ UNCHANGED vars => TypeOK'
    BY DEF TypeOK, vars
<1> QED BY <1>1, ServiceType, CommandType, ReloadType, ExitType DEF Next

(***************************************************************************)
(* A backup is a configuration with the same names.                        *)
(***************************************************************************)
LEMMA BackupFacts ==
    ASSUME NEW c \in Configs, NEW pid \in [DOMAIN c.modules -> Pids \cup {NoPid}]
    PROVE  /\ BackupOf(c, pid) \in Configuration
           /\ DOMAIN BackupOf(c, pid).modules = DOMAIN c.modules
           /\ \A i \in DOMAIN c.modules :
                 /\ BackupOf(c, pid).modules[i].name = c.modules[i].name
                 /\ BackupOf(c, pid).modules[i].module_pid = pid[i]
           /\ UniqueNames(BackupOf(c, pid))
<1>1. c \in Configuration /\ UniqueNames(c)
    BY ConfigsAssumption
<1>2. c.modules \in Seq(ModuleElement) /\ DOMAIN c.modules = 1..Len(c.modules)
    BY <1>1, LenProperties DEF Configuration
<1>3. Len(c.modules) \in Nat
    BY <1>2, LenProperties
<1> DEFINE el(i) == [c.modules[i] EXCEPT !.max_restarts = -1, !.module_pid = pid[i]]
           ms == [i \in DOMAIN c.modules |-> el(i)]
<1>4. ASSUME NEW i \in DOMAIN c.modules
      PROVE  el(i) \in ModuleElement /\ el(i).name = c.modules[i].name
             /\ el(i).module_pid = pid[i]
  <2>1. ASSUME NEW e \in ModuleElement, NEW q \in Pids \cup {NoPid, ForkFailed}
        PROVE  /\ [e EXCEPT !.max_restarts = -1, !.module_pid = q] \in ModuleElement
               /\ [e EXCEPT !.max_restarts = -1, !.module_pid = q].name = e.name
               /\ [e EXCEPT !.max_restarts = -1, !.module_pid = q].module_pid = q
    <3>1. [e EXCEPT !.max_restarts = -1, !.module_pid = q] \in ModuleElement
        BY Zenon DEF ModuleElement
    <3> QED BY <3>1 DEF ModuleElement
  <2>2. c.modules[i] \in ModuleElement /\ pid[i] \in Pids \cup {NoPid, ForkFailed}
      BY <1>2, ElementOfSeq
  <2> QED BY <2>1, <2>2
<1> HIDE DEF el
<1>5. ms \in Seq(ModuleElement)
  <2>1. ms \in [1..Len(c.modules) -> ModuleElement]
      BY <1>2, <1>4
  <2> QED BY <1>3, <2>1, IsASeq
<1>6. /\ DOMAIN ms = DOMAIN c.modules
      /\ \A i \in DOMAIN c.modules :
            ms[i].name = c.modules[i].name /\ ms[i].module_pid = pid[i]
    BY <1>4
<1>7. BackupOf(c, pid) = [c EXCEPT !.restarts = -1, !.modules = ms]
    BY DEF BackupOf, el
<1> HIDE DEF ms
<1>8. BackupOf(c, pid) \in Configuration
    BY <1>1, <1>5, <1>7, Zenon DEF Configuration
<1>9. BackupOf(c, pid).modules = ms
    BY <1>1, <1>7 DEF Configuration
<1> QED BY <1>1, <1>6, <1>8, <1>9 DEF UniqueNames

(***************************************************************************)
(* What StartsWith says of the table.                                      *)
(***************************************************************************)
LEMMA StartType ==
    ASSUME NEW c \in Configuration, StartsWith(c), proc \in [Pids -> Process]
    PROVE  TypeOK
<1>1. running_modules \in [Modules -> ModuleRecord]
    BY SlotFacts DEF StartsWith
<1>2. /\ config \in Configuration /\ profile_enabled \in [Profiles -> BOOLEAN]
      /\ restarts_config \in Nat
    BY SupervisorAssumption DEF StartsWith, Configuration
<1>3. slots \in Seq(Modules)
    BY EmptySeq DEF StartsWith
<1> QED BY <1>1, <1>2, <1>3, SupervisorAssumption DEF StartsWith, TypeOK, Places

(***************************************************************************)
(* The process table an earlier supervisor left: the identifiers of the    *)
(* backup, each with a process of its module, running or ended.            *)
(***************************************************************************)
Inherited(c, pid, ended) ==
    [p \in Pids |->
        IF \E i \in DOMAIN pid : pid[i] = p
        THEN LET i == CHOOSE i \in DOMAIN pid : pid[i] = p
                 e == c.modules[i]
                 q == ProcessOf(e.name, ElementParams(e), FALSE)
             IN  IF i \in ended THEN Ended(q) ELSE q
        ELSE FreeProcess]

(***************************************************************************)
(* Every identifier of the backup belongs to the module of its element,    *)
(* and no other identifier is in use.                                      *)
(***************************************************************************)
LEMMA InheritedFacts ==
    ASSUME NEW c \in Configs, NEW pid \in [DOMAIN c.modules -> Pids \cup {NoPid}],
           NEW ended \in SUBSET DOMAIN c.modules,
           \A i, j \in DOMAIN pid : pid[i] = pid[j] => i = j \/ pid[i] = NoPid
    PROVE  /\ Inherited(c, pid, ended) \in [Pids -> Process]
           /\ \A p \in Pids : Inherited(c, pid, ended)[p].forced = FALSE
           /\ \A p \in Pids : Inherited(c, pid, ended)[p].state \notin {"free", "lost"} =>
                 \E i \in DOMAIN pid : pid[i] = p
           /\ \A i \in DOMAIN pid : pid[i] \in Pids =>
                 /\ Inherited(c, pid, ended)[pid[i]].state \notin {"free", "lost"}
                 /\ Inherited(c, pid, ended)[pid[i]].mod = c.modules[i].name
<1> DEFINE q(i) == ProcessOf(c.modules[i].name, ElementParams(c.modules[i]), FALSE)
           x(i) == IF i \in ended THEN Ended(q(i)) ELSE q(i)
<1>1. c.modules \in Seq(ModuleElement) /\ DOMAIN c.modules = 1..Len(c.modules)
    BY ConfigsAssumption, LenProperties DEF Configuration
<1>2. ASSUME NEW i \in DOMAIN pid
      PROVE  /\ x(i) \in Process /\ x(i).forced = FALSE /\ x(i).state \notin {"free", "lost"}
             /\ x(i).mod = c.modules[i].name
  <2>1. c.modules[i] \in ModuleElement
      BY <1>1, ElementOfSeq
  <2>2. c.modules[i].name \in Modules
        /\ ElementParams(c.modules[i]) \in Params \cup {NoParams}
      BY <2>1, SupervisorAssumption DEF ModuleElement, ElementParams
  <2>3. /\ q(i) \in Process /\ q(i).forced = FALSE /\ q(i).state = "alive"
        /\ q(i).mod = c.modules[i].name
      BY <2>2 DEF ProcessOf, Process
  <2> HIDE DEF q
  <2> QED BY <2>3, ProcessFacts
<1>3. ASSUME NEW p \in Pids
      PROVE  Inherited(c, pid, ended)[p] =
                IF \E i \in DOMAIN pid : pid[i] = p
                THEN x(CHOOSE i \in DOMAIN pid : pid[i] = p) ELSE FreeProcess
    BY DEF Inherited
<1>4. ASSUME NEW i \in DOMAIN pid, pid[i] \in Pids
      PROVE  Inherited(c, pid, ended)[pid[i]] = x(i)
  <2> DEFINE j == CHOOSE k \in DOMAIN pid : pid[k] = pid[i]
  <2>1. j \in DOMAIN pid /\ pid[j] = pid[i]
      OBVIOUS
  <2>2. j = i
      BY <1>4, <2>1, SupervisorAssumption
  <2>3. Inherited(c, pid, ended)[pid[i]] = x(j)
      BY <1>3, <1>4
  <2> QED BY <2>2, <2>3
<1> HIDE DEF x
<1>5. \A p \in Pids : \/ Inherited(c, pid, ended)[p] = FreeProcess
                      \/ \E i \in DOMAIN pid : pid[i] = p
                            /\ Inherited(c, pid, ended)[p] = x(i)
    BY <1>3, <1>4
<1>6. FreeProcess \in Process /\ FreeProcess.forced = FALSE /\ FreeProcess.state = "free"
    BY ProcessFacts
<1>7. ASSUME NEW p \in Pids
      PROVE  /\ Inherited(c, pid, ended)[p] \in Process
             /\ Inherited(c, pid, ended)[p].forced = FALSE
             /\ Inherited(c, pid, ended)[p].state \notin {"free", "lost"} =>
                   \E i \in DOMAIN pid : pid[i] = p
  <2>1. CASE Inherited(c, pid, ended)[p] = FreeProcess
      BY <1>6, <2>1, Zenon
  <2>2. CASE \E i \in DOMAIN pid : pid[i] = p /\ Inherited(c, pid, ended)[p] = x(i)
      BY <1>2, <2>2, Zenon
  <2> QED BY <1>5, <2>1, <2>2
<1>8. ASSUME NEW i \in DOMAIN pid, pid[i] \in Pids
      PROVE  /\ Inherited(c, pid, ended)[pid[i]].state \notin {"free", "lost"}
             /\ Inherited(c, pid, ended)[pid[i]].mod = c.modules[i].name
    BY <1>2, <1>4, <1>8, Zenon
<1>9. Inherited(c, pid, ended) \in [Pids -> Process]
    BY <1>7 DEF Inherited
<1> QED BY <1>7, <1>8, <1>9, Zenon

(***************************************************************************)
(* Both kinds of start, with a configuration and with a backup, are well-  *)
(* formed.                                                                 *)
(***************************************************************************)
LEMMA InitType == Init => TypeOK
<1>1. ASSUME NEW c \in Configs, StartsWith(c), proc = [p \in Pids |-> FreeProcess]
      PROVE  TypeOK
  <2>1. c \in Configuration /\ proc \in [Pids -> Process]
      BY <1>1, ConfigsAssumption, ProcessFacts
  <2> QED BY <1>1, <2>1, StartType
<1>2. ASSUME NEW c \in Configs, NEW pid \in [DOMAIN c.modules -> Pids \cup {NoPid}],
             NEW ended \in SUBSET DOMAIN c.modules,
             \A i, j \in DOMAIN pid : pid[i] = pid[j] => i = j \/ pid[i] = NoPid,
             StartsWith(BackupOf(c, pid)), proc = Inherited(c, pid, ended)
      PROVE  TypeOK
  <2>1. BackupOf(c, pid) \in Configuration /\ proc \in [Pids -> Process]
      BY <1>2, BackupFacts, InheritedFacts
  <2> QED BY <1>2, <2>1, StartType
<1> QED BY <1>1, <1>2 DEF Init, Inherited

(***************************************************************************)
(* No module is in the array twice: a name is appended only if it is not   *)
(* there, and freeing a slot keeps the other ones apart.                   *)
(***************************************************************************)
LEMMA DistinctStep ==
    ASSUME TypeOK, DistinctInv, [Next]_vars
    PROVE  DistinctInv'
<1>1. slots \in Seq(Modules) /\ Len(slots) \in Nat /\ DOMAIN slots = 1..Len(slots)
    BY LenProperties DEF TypeOK
<1>2. CASE slots' = slots
    BY <1>2 DEF DistinctInv
<1>3. CASE ServeModule /\ slots' # slots
  <2>1. y \in 1..Len(slots)
      BY <1>1, <1>3 DEF TypeOK, ServeModule
  <2>2. slots' = SubSeq(slots, 1, y - 1) \o SubSeq(slots, y + 1, Len(slots))
      BY <1>3 DEF ServeModule, free_module_and_shift_array
  <2>3. /\ DOMAIN slots' = 1..(Len(slots) - 1)
        /\ \A i \in DOMAIN slots' : slots'[i] = IF i < y THEN slots[i] ELSE slots[i + 1]
      BY <1>1, <2>1, <2>2, ShiftFacts
  <2> QED BY <1>1, <2>1, <2>3 DEF DistinctInv
<1>4. CASE ReloadModule /\ slots' # slots
  <2>1. Element.name \in Modules /\ Fresh /\ slots' = Append(slots, Element.name)
      BY <1>4, ReloadFacts
  <2>2. /\ Len(slots') = Len(slots) + 1 /\ DOMAIN slots' = 1..(Len(slots) + 1)
        /\ \A i \in 1..Len(slots) : slots'[i] = slots[i]
        /\ slots'[Len(slots) + 1] = Element.name
      BY <1>1, <2>1, AppendProperties, LenProperties
  <2>3. \A i \in 1..Len(slots) : slots[i] # Element.name
      BY <1>1, <2>1 DEF Fresh, Loaded
  <2> QED BY <1>1, <2>2, <2>3 DEF DistinctInv
<1>5. slots' = slots \/ ServeModule \/ ReloadModule
  <2>1. CASE ServiceStep
      BY <2>1 DEF ServiceStep, ServeDone, service_check_modules_status,
         service_update_modules_status, service_stop_modules_sigint,
         service_stop_modules_sigkill, service_clean_after_children, tables
  <2>2. CASE Command
      BY <2>2 DEF Command, interactive_set_enabled, interactive_set_disabled,
         interactive_restart_module, SetProfile, ReloadBegin, tables
  <2>3. CASE Reload
      BY <2>3 DEF Reload, ReloadEnd, tables
  <2>4. CASE \E p \in Pids : Exit(p)
      BY <2>4 DEF Exit, tables
  <2>5. CASE UNCHANGED vars
      BY <2>5 DEF vars
  <2> QED BY <2>1, <2>2, <2>3, <2>4, <2>5 DEF Next
<1> QED BY <1>2, <1>3, <1>4, <1>5

(***************************************************************************)
(* Every reachable state is well-formed: an index of the serving loop that *)
(* is used names a slot, and a record is never left with half a value by   *)
(* the nested assignments of the reload.                                   *)
(***************************************************************************)
THEOREM TypeCorrect == Spec => []TypeOK
BY InitType, NextType, PTL DEF Spec

-----------------------------------------------------------------------------
(* The inductive invariant, one lemma for each kind of step.                *)

(***************************************************************************)
(* A step that starts, reaps and removes nothing.                          *)
(***************************************************************************)
LEMMA QuietInv ==
    ASSUME IInv, TypeOK', Loaded \subseteq Loaded', proc' = proc,
           \A m \in Modules :
              /\ running_modules'[m].module_pid = Pid(m)
              /\ running_modules'[m].module_status = Status(m)
              /\ running_modules'[m].sent_sigint => running_modules[m].sent_sigint,
           pc' \in {"reload", "idle", "serve", "report"},
           pc' \in {"serve", "report"} => pc = "serve",
           pc = "load" => \A p \in Pids : Exists(p) => Pid(proc[p].mod) = p
    PROVE  IInv'
<1>1. UnloadedInv'
    BY DEF IInv, UnloadedInv, Pid
<1>2. OwnerInv'
    BY DEF IInv, OwnerInv, Pid, InUse
<1>3. StatusInv'
    BY DEF IInv, StatusInv, Pid, Status
<1>4. FreshInv' /\ LoadInv'
    BY DEF FreshInv, LoadInv
<1>5. EveryProcessRecorded'
  <2>1. \A p \in Pids : proc[p].mod \in Modules
      BY DEF IInv, TypeOK, Process
  <2>2. \A p \in Pids : Exists(p) => Pid(proc[p].mod) = p
      BY DEF IInv, EveryProcessRecorded, Pid
  <2> QED BY <2>1, <2>2 DEF EveryProcessRecorded, Exists, Pid
<1>6. AskedInv'
    BY DEF IInv, AskedInv, Alive, Pid
<1>7. AskedBeforeForced'
    BY DEF IInv, AskedBeforeForced, Alive
<1> QED BY <1>1, <1>2, <1>3, <1>4, <1>5, <1>6, <1>7 DEF IInv

(***************************************************************************)
(* The status check forgets exactly the identifiers of processes that do   *)
(* not exist, before the kernel may hand them out again.                   *)
(***************************************************************************)
LEMMA CheckInv ==
    ASSUME IInv, service_check_modules_status,
           pc # "load", pc' \in {"update", "sigkill", "receive", "idle", "ended"}
    PROVE  IInv'
<1>1. TypeOK'
    BY CheckType DEF IInv, Places
<1>2. ASSUME NEW m \in Modules
      PROVE  /\ running_modules'[m].sent_sigint = running_modules[m].sent_sigint
             /\ Pid(m) \notin Pids => /\ running_modules'[m].module_pid = Pid(m)
                                      /\ running_modules'[m].module_status = Status(m)
             /\ Pid(m) \in Pids /\ Exists(Pid(m)) =>
                   /\ running_modules'[m].module_pid = Pid(m)
                   /\ running_modules'[m].module_status
             /\ Pid(m) \in Pids /\ ~Exists(Pid(m)) =>
                   /\ running_modules'[m].module_pid = NoPid
                   /\ ~running_modules'[m].module_status
  <2>1. TypeOK /\ running_modules[m] \in ModuleRecord
      BY DEF IInv, TypeOK
  <2>2. running_modules'[m] = Checked(running_modules[m], m)
      BY DEF service_check_modules_status
  <2> QED BY <2>1, <2>2, CheckedFacts DEF Pid, Status
<1>3. ASSUME NEW p \in Pids
      PROVE  /\ Exists(p) => proc'[p] = proc[p]
             /\ ~Exists(p) => proc'[p].state \in {"free", "lost"}
  <2>1. proc[p].state \in {"free", "alive", "zombie", "gone", "lost"}
      BY DEF IInv, TypeOK, Process
  <2> QED BY <2>1, ProcessFacts DEF service_check_modules_status, Exists
<1>4. NoPid \notin Pids
    BY SupervisorAssumption
<1>5. Loaded' = Loaded
    BY DEF service_check_modules_status, tables, Loaded
<1>6. UnloadedInv'
    BY <1>2, <1>4, <1>5 DEF IInv, UnloadedInv, Pid
<1>7. OwnerInv'
    BY <1>2, <1>3, <1>4 DEF IInv, OwnerInv, Pid, InUse
<1>8. StatusInv'
    BY <1>2, <1>4 DEF IInv, StatusInv, Pid, Status
<1>9. FreshInv' /\ LoadInv'
  <2>1. \A p \in Pids : Exists(p) => InUse(p)
      BY DEF Exists, InUse
  <2> QED BY <1>2, <1>3, <1>4, <2>1 DEF FreshInv, LoadInv, Pid, InUse
<1>10. EveryProcessRecorded'
  <2>1. \A p \in Pids : proc[p].mod \in Modules
      BY DEF IInv, TypeOK, Process
  <2> QED BY <1>2, <1>3, <2>1 DEF IInv, EveryProcessRecorded, Exists, Pid
<1>11. AskedInv'
    BY <1>2, <1>3, <1>4 DEF IInv, AskedInv, Alive, Exists, Pid
<1>12. AskedBeforeForced'
    BY <1>3 DEF IInv, AskedBeforeForced, Alive, Exists
<1> QED BY <1>1, <1>6, <1>7, <1>8, <1>9, <1>10, <1>11, <1>12 DEF IInv

(***************************************************************************)
(* A start: fork() returns an identifier no slot records, and a module     *)
(* that is down has no process, so its slot may take the new one.          *)
(***************************************************************************)
LEMMA UpdateStep ==
    ASSUME IInv, Go("update", "sigint"), service_update_modules_status
    PROVE  IInv'
<1>1. TypeOK' /\ pc = "update" /\ pc' = "sigint"
    BY UpdateType DEF IInv, Places, Go
<1>2. PICK child \in [ToStart -> FreePids \cup {ForkFailed}] :
        /\ \A m, n \in ToStart :
               child[m] = child[n] => m = n \/ child[m] = ForkFailed
        /\ running_modules' = [m \in Modules |->
              LET r == Ticked(running_modules[m])
              IN  IF m \in ToStart THEN service_start_module(r, child[m])
                  ELSE IF m \in OutOfRestarts
                       THEN [r EXCEPT !.module_enabled = FALSE]
                  ELSE IF m \in Loaded THEN r
                  ELSE running_modules[m]]
        /\ proc' = [p \in Pids |->
              IF \E m \in ToStart : child[m] = p
              THEN LET m == CHOOSE m \in ToStart : child[m] = p
                   IN  ProcessOf(m, running_modules[m].module_params, TRUE)
              ELSE proc[p]]
    BY DEF service_update_modules_status
<1>3. /\ ToStart \subseteq Loaded /\ ToStart \subseteq Modules
      /\ \A m \in ToStart : ~Status(m)
    BY LoadedModules DEF IInv, ToStart, Down, Status
<1>4. ASSUME NEW m \in Modules
      PROVE  /\ m \in ToStart =>
                   /\ running_modules'[m].module_pid = child[m]
                   /\ running_modules'[m].module_status = (child[m] # ForkFailed)
                   /\ ~running_modules'[m].sent_sigint
             /\ m \notin ToStart =>
                   /\ running_modules'[m].module_pid = Pid(m)
                   /\ running_modules'[m].module_status = Status(m)
                   /\ running_modules'[m].sent_sigint = running_modules[m].sent_sigint
  <2> DEFINE r == Ticked(running_modules[m])
  <2>1. /\ running_modules[m] \in ModuleRecord
        /\ r \in ModuleRecord /\ r.module_pid = Pid(m)
        /\ r.module_status = Status(m)
        /\ r.sent_sigint = running_modules[m].sent_sigint
      BY TickedFacts DEF IInv, TypeOK, Pid, Status
  <2> HIDE DEF r
  <2>2. ASSUME NEW x \in ModuleRecord
        PROVE  /\ [x EXCEPT !.module_enabled = FALSE].module_pid = x.module_pid
               /\ [x EXCEPT !.module_enabled = FALSE].module_status = x.module_status
               /\ [x EXCEPT !.module_enabled = FALSE].sent_sigint = x.sent_sigint
      BY DEF ModuleRecord
  <2>3. running_modules'[m] = IF m \in ToStart THEN service_start_module(r, child[m])
                              ELSE IF m \in OutOfRestarts
                                   THEN [r EXCEPT !.module_enabled = FALSE]
                              ELSE IF m \in Loaded THEN r
                              ELSE running_modules[m]
      BY <1>2 DEF r
  <2>4. CASE m \in ToStart
    <3>1. child[m] \in Pids \cup {ForkFailed}
        BY <2>4 DEF FreePids
    <3> QED BY <2>1, <2>3, <2>4, <3>1, StartFacts
  <2>5. CASE m \notin ToStart
      BY <2>1, <2>2, <2>3, <2>5 DEF Pid, Status
  <2> QED BY <2>4, <2>5
<1>5. ASSUME NEW m \in ToStart, child[m] \in Pids
      PROVE  /\ ~InUse(child[m])
             /\ proc'[child[m]].state = "alive"
             /\ proc'[child[m]].mod = m
             /\ proc'[child[m]].forced = FALSE
  <2> DEFINE n == CHOOSE k \in ToStart : child[k] = child[m]
  <2>1. n \in ToStart /\ child[n] = child[m]
      OBVIOUS
  <2>2. child[m] # ForkFailed
      BY <1>5, SupervisorAssumption
  <2>3. n = m
      BY <1>2, <2>1, <2>2
  <2>4. proc'[child[m]] = ProcessOf(n, running_modules[n].module_params, TRUE)
      BY <1>2, <1>5
  <2> HIDE DEF n
  <2>5. m \in Modules /\ running_modules[m].module_params \in Params \cup {NoParams}
      BY <1>3 DEF IInv, TypeOK, ModuleRecord
  <2>6. ~InUse(child[m])
      BY <2>2 DEF FreePids, InUse
  <2> QED BY <2>3, <2>4, <2>5, <2>6 DEF ProcessOf
<1>6. ASSUME NEW p \in Pids, InUse(p)
      PROVE  proc'[p] = proc[p] /\ \A m \in ToStart : child[m] # p
  <2>1. \A m \in ToStart : child[m] # p
      BY <1>5, <1>6
  <2> QED BY <1>2, <2>1
<1>7. ASSUME NEW p \in Pids, ~InUse(p)
      PROVE  proc'[p] = proc[p] \/ \E m \in ToStart : child[m] = p
    BY <1>2
<1>8. \A m \in Modules : Pid(m) \in Pids => InUse(Pid(m)) /\ Status(m) /\ m \notin ToStart
    BY <1>1, <1>3 DEF IInv, FreshInv, StatusInv, Status
<1>9. ForkFailed \notin Pids /\ \A m \in ToStart : child[m] \in Pids \/ child[m] = ForkFailed
    BY SupervisorAssumption DEF FreePids
<1> HIDE DEF IInv
<1>10. UnloadedInv'
  <2>1. Loaded' = Loaded
      BY DEF service_update_modules_status, tables, Loaded
  <2> QED BY <1>3, <1>4, <2>1 DEF IInv, UnloadedInv, Pid
<1>11. OwnerInv'
  <2>1. ASSUME NEW m \in Modules, running_modules'[m].module_pid \in Pids
        PROVE  proc'[running_modules'[m].module_pid].mod = m
    <3>1. CASE m \in ToStart
        BY <1>4, <1>5, <2>1, <3>1
    <3>2. CASE m \notin ToStart
        BY <1>4, <1>6, <1>8, <2>1, <3>2 DEF IInv, OwnerInv
    <3> QED BY <3>1, <3>2
  <2> QED BY <2>1 DEF OwnerInv, Pid
<1>12. StatusInv'
  <2>1. ASSUME NEW m \in Modules
        PROVE  running_modules'[m].module_status <=> running_modules'[m].module_pid \in Pids
    <3>1. CASE m \in ToStart
        BY <1>4, <1>9, <3>1
    <3>2. CASE m \notin ToStart
      <4>1. Status(m) <=> Pid(m) \in Pids
          BY <1>8 DEF IInv, StatusInv, Status
      <4> QED BY <1>4, <3>2, <4>1
    <3> QED BY <3>1, <3>2
  <2> QED BY <2>1 DEF StatusInv, Pid
<1>13. FreshInv' /\ LoadInv'
  <2>1. ASSUME NEW m \in Modules, running_modules'[m].module_pid \in Pids
        PROVE  proc'[running_modules'[m].module_pid].state \notin {"free", "lost"}
    <3>1. CASE m \in ToStart
        BY <1>4, <1>5, <2>1, <3>1
    <3>2. CASE m \notin ToStart
        BY <1>4, <1>6, <1>8, <2>1, <3>2 DEF InUse
    <3> QED BY <3>1, <3>2
  <2> QED BY <1>1, <2>1 DEF FreshInv, LoadInv, Pid, InUse
<1>14. EveryProcessRecorded'
  <2>1. ASSUME NEW p \in Pids, proc'[p].state \in {"alive", "zombie"}
        PROVE  running_modules'[proc'[p].mod].module_pid = p
    <3>1. CASE InUse(p)
      <4>1. proc'[p] = proc[p] /\ proc[p].mod \in Modules
          BY <1>6, <3>1 DEF IInv, TypeOK, Process
      <4>2. Pid(proc[p].mod) = p
          BY <1>1, <2>1, <4>1 DEF IInv, EveryProcessRecorded, Exists, Pid
      <4> QED BY <1>4, <1>8, <4>1, <4>2
    <3>2. CASE ~InUse(p)
      <4>1. proc'[p] # proc[p]
          BY <2>1, <3>2 DEF InUse
      <4>2. PICK m \in ToStart : child[m] = p
          BY <1>7, <3>2, <4>1
      <4> QED BY <1>3, <1>4, <1>5, <4>2
    <3> QED BY <3>1, <3>2
  <2> QED BY <2>1 DEF EveryProcessRecorded, Exists
<1>15. AskedInv'
  <2>1. ASSUME NEW m \in Modules \ Privileged, running_modules'[m].sent_sigint,
               running_modules'[m].module_pid \in Pids,
               proc'[running_modules'[m].module_pid].state = "alive"
        PROVE  proc'[running_modules'[m].module_pid].asked
    <3>1. m \notin ToStart
        BY <1>4, <2>1
    <3>2. /\ running_modules'[m].module_pid = Pid(m)
          /\ running_modules[m].sent_sigint /\ Pid(m) \in Pids
        BY <1>4, <2>1, <3>1
    <3>3. proc'[Pid(m)] = proc[Pid(m)]
        BY <1>6, <1>8, <3>2
    <3> QED BY <2>1, <3>2, <3>3 DEF IInv, AskedInv, Alive
  <2> QED BY <2>1 DEF AskedInv, Alive, Pid
<1>16. AskedBeforeForced'
  <2>1. ASSUME NEW p \in Pids, proc'[p].state = "alive", proc'[p].forced
        PROVE  proc'[p].asked
    <3>1. \A m \in ToStart : child[m] # p
        BY <1>5, <2>1, Zenon
    <3>2. proc'[p] = proc[p]
        BY <1>6, <1>7, <3>1
    <3> QED BY <2>1, <3>2 DEF IInv, AskedBeforeForced, Alive
  <2> QED BY <2>1 DEF AskedBeforeForced, Alive
<1> QED BY <1>1, <1>10, <1>11, <1>12, <1>13, <1>14, <1>15, <1>16 DEF IInv

(***************************************************************************)
(* A step that only marks or reaps processes: records keep identifier and  *)
(* status, and a process is unchanged, marked, or freed as a zombie.       *)
(***************************************************************************)
LEMMA MarkStep ==
    ASSUME IInv, TypeOK', Loaded' = Loaded,
           \A m \in Modules : /\ running_modules'[m].module_pid = Pid(m)
                              /\ running_modules'[m].module_status = Status(m),
           \A p \in Pids : proc'[p].state # "free" =>
                              /\ proc'[p].state = proc[p].state
                              /\ proc'[p].mod = proc[p].mod,
           \/ pc = "sigint" /\ pc' = "clean"
           \/ pc = "clean" /\ pc' = "check"
           \/ pc = "sigkill" /\ pc' = "cleanagain"
           \/ pc = "cleanagain" /\ pc' = "serve",
           pc' \in {"clean", "cleanagain"} =>
              \A p \in Pids : proc'[p].state = proc[p].state,
           AskedInv', AskedBeforeForced'
    PROVE  IInv'
<1>1. UnloadedInv'
    BY DEF IInv, UnloadedInv, Pid
<1>2. OwnerInv'
    BY DEF IInv, OwnerInv, Pid, InUse
<1>3. StatusInv'
    BY DEF IInv, StatusInv, Pid, Status
<1>4. FreshInv' /\ LoadInv'
    BY DEF IInv, FreshInv, LoadInv, Pid, InUse
<1>5. EveryProcessRecorded'
  <2>1. \A p \in Pids : proc[p].mod \in Modules
      BY DEF IInv, TypeOK, Process
  <2> QED BY <2>1 DEF IInv, EveryProcessRecorded, Exists, Pid
<1> QED BY <1>1, <1>2, <1>3, <1>4, <1>5 DEF IInv

(***************************************************************************)
(* SIGINT: a module that is asked now has its process marked, unless the   *)
(* process is privileged.                                                  *)
(***************************************************************************)
LEMMA SigintStep ==
    ASSUME IInv, Go("sigint", "clean"), service_stop_modules_sigint
    PROVE  IInv'
<1>1. TypeOK' /\ pc = "sigint" /\ pc' = "clean"
    BY SigintType DEF IInv, Places, Go
<1>2. Loaded' = Loaded
    BY DEF service_stop_modules_sigint, tables, Loaded
<1>3. ASSUME NEW m \in Modules
      PROVE  /\ running_modules'[m].module_pid = Pid(m)
             /\ running_modules'[m].module_status = Status(m)
             /\ m \notin ToAsk =>
                   running_modules'[m].sent_sigint = running_modules[m].sent_sigint
  <2>1. ASSUME NEW x \in ModuleRecord
        PROVE  /\ [x EXCEPT !.sent_sigint = TRUE, !.restart_cnt = -1].module_pid
                     = x.module_pid
               /\ [x EXCEPT !.sent_sigint = TRUE, !.restart_cnt = -1].module_status
                     = x.module_status
      BY DEF ModuleRecord
  <2>2. /\ running_modules[m] \in ModuleRecord
        /\ running_modules'[m] =
              IF m \in ToAsk
              THEN [running_modules[m] EXCEPT !.sent_sigint = TRUE, !.restart_cnt = -1]
              ELSE running_modules[m]
      BY DEF IInv, TypeOK, service_stop_modules_sigint, Update
  <2> QED BY <2>1, <2>2 DEF Pid, Status
<1>4. ASSUME NEW p \in Pids
      PROVE  /\ proc'[p].state = proc[p].state /\ proc'[p].mod = proc[p].mod
             /\ proc'[p].forced = proc[p].forced
             /\ Signalled(ToAsk, p) => proc'[p].asked
             /\ proc[p].asked => proc'[p].asked
  <2>1. /\ proc[p] \in Process
        /\ proc'[p] = IF Signalled(ToAsk, p) THEN [proc[p] EXCEPT !.asked = TRUE]
                                             ELSE proc[p]
      BY DEF IInv, TypeOK, service_stop_modules_sigint
  <2> QED BY <2>1, SignalFacts
<1>5. AskedInv'
  <2>1. ASSUME NEW m \in Modules \ Privileged, running_modules'[m].sent_sigint,
               Pid(m) \in Pids, Alive(Pid(m))
        PROVE  proc'[Pid(m)].asked
    <3>1. CASE m \in ToAsk
        BY <1>4, <2>1, <3>1 DEF Signalled, Pid
    <3>2. CASE m \notin ToAsk
        BY <1>3, <1>4, <2>1, <3>2 DEF IInv, AskedInv
    <3> QED BY <3>1, <3>2
  <2> QED BY <1>3, <1>4, <2>1 DEF AskedInv, Alive, Pid
<1>6. AskedBeforeForced'
    BY <1>4 DEF IInv, AskedBeforeForced, Alive
<1> QED BY <1>1, <1>2, <1>3, <1>4, <1>5, <1>6, MarkStep

(***************************************************************************)
(* SIGKILL goes to modules with sent_sigint, whose processes were asked.   *)
(***************************************************************************)
LEMMA SigkillStep ==
    ASSUME IInv, Go("sigkill", "cleanagain"), service_stop_modules_sigkill
    PROVE  IInv'
<1>1. TypeOK' /\ pc = "sigkill" /\ pc' = "cleanagain"
    BY SigkillType DEF IInv, Places, Go
<1>2. Loaded' = Loaded
    BY DEF service_stop_modules_sigkill, tables, Loaded
<1>3. ASSUME NEW m \in Modules
      PROVE  /\ running_modules'[m].module_pid = Pid(m)
             /\ running_modules'[m].module_status = Status(m)
             /\ running_modules'[m].sent_sigint = running_modules[m].sent_sigint
  <2>1. ASSUME NEW x \in ModuleRecord
        PROVE  /\ [x EXCEPT !.restart_cnt = -1].module_pid = x.module_pid
               /\ [x EXCEPT !.restart_cnt = -1].module_status = x.module_status
               /\ [x EXCEPT !.restart_cnt = -1].sent_sigint = x.sent_sigint
      BY DEF ModuleRecord
  <2>2. /\ running_modules[m] \in ModuleRecord
        /\ running_modules'[m] =
              IF m \in ToForce THEN [running_modules[m] EXCEPT !.restart_cnt = -1]
                               ELSE running_modules[m]
      BY DEF IInv, TypeOK, service_stop_modules_sigkill, Update
  <2> QED BY <2>1, <2>2 DEF Pid, Status
<1>4. ASSUME NEW p \in Pids
      PROVE  /\ proc'[p].state = proc[p].state /\ proc'[p].mod = proc[p].mod
             /\ proc'[p].asked = proc[p].asked
             /\ ~Signalled(ToForce, p) => proc'[p] = proc[p]
  <2>1. /\ proc[p] \in Process
        /\ proc'[p] = IF Signalled(ToForce, p) THEN [proc[p] EXCEPT !.forced = TRUE]
                                               ELSE proc[p]
      BY DEF IInv, TypeOK, service_stop_modules_sigkill
  <2> QED BY <2>1, SignalFacts
<1>5. AskedInv'
    BY <1>3, <1>4 DEF IInv, AskedInv, Alive, Pid
<1>6. AskedBeforeForced'
  <2>1. ASSUME NEW p \in Pids, Signalled(ToForce, p)
        PROVE  proc[p].asked
    <3>1. PICK m \in ToForce \ Privileged : Pid(m) = p /\ Alive(p)
        BY <2>1 DEF Signalled, Pid
    <3>2. m \in Modules /\ running_modules[m].sent_sigint
        BY LoadedModules DEF IInv, ToForce
    <3> QED BY <3>1, <3>2 DEF IInv, AskedInv
  <2> QED BY <1>4, <2>1 DEF IInv, AskedBeforeForced, Alive
<1> QED BY <1>1, <1>2, <1>3, <1>4, <1>5, <1>6, MarkStep

(***************************************************************************)
(* waitpid() frees zombies only, and nothing is started before the next    *)
(* status check.                                                           *)
(***************************************************************************)
LEMMA CleanStep ==
    ASSUME IInv, service_clean_after_children,
           \/ pc = "clean" /\ pc' = "check"
           \/ pc = "cleanagain" /\ pc' = "serve"
    PROVE  IInv'
<1>1. TypeOK'
    BY CleanType DEF IInv, Places
<1>2. Loaded' = Loaded
    BY DEF service_clean_after_children, tables, Loaded
<1>3. ASSUME NEW m \in Modules
      PROVE  /\ running_modules'[m].module_pid = Pid(m)
             /\ running_modules'[m].module_status = Status(m)
             /\ running_modules'[m].sent_sigint = running_modules[m].sent_sigint
  <2>1. ASSUME NEW x \in ModuleRecord
        PROVE  /\ [x EXCEPT !.module_is_my_child = FALSE].module_pid = x.module_pid
               /\ [x EXCEPT !.module_is_my_child = FALSE].module_status = x.module_status
               /\ [x EXCEPT !.module_is_my_child = FALSE].sent_sigint = x.sent_sigint
      BY DEF ModuleRecord
  <2>2. /\ running_modules[m] \in ModuleRecord
        /\ running_modules'[m] \in
              {running_modules[m], [running_modules[m] EXCEPT !.module_is_my_child = FALSE]}
      BY DEF IInv, TypeOK, service_clean_after_children, Update
  <2> QED BY <2>1, <2>2 DEF Pid, Status
<1>4. ASSUME NEW p \in Pids, proc'[p].state # "free"
      PROVE  proc'[p] = proc[p]
    BY <1>4, ProcessFacts DEF service_clean_after_children
<1>5. AskedInv'
    BY <1>3, <1>4 DEF IInv, AskedInv, Alive, Pid
<1>6. AskedBeforeForced'
    BY <1>4 DEF IInv, AskedBeforeForced, Alive
<1> QED BY <1>1, <1>2, <1>3, <1>4, <1>5, <1>6, MarkStep

(***************************************************************************)
(* The serving loop: a slot that is freed records no process.              *)
(***************************************************************************)
LEMMA ServeInv ==
    ASSUME IInv, ServeModule
    PROVE  IInv'
<1>1. TypeOK /\ TypeOK' /\ pc = "serve" /\ pc' = "serve" /\ proc' = proc
    BY ServeType DEF IInv, ServeModule
<1>2. y \in 1..Len(slots) /\ slots[y] \in Modules
    BY <1>1, LenProperties, ElementOfSeq DEF TypeOK, ServeModule
<1>3. CASE Removable(running_modules[slots[y]])
  <2>1. /\ slots' = SubSeq(slots, 1, y - 1) \o SubSeq(slots, y + 1, Len(slots))
        /\ running_modules' = [running_modules EXCEPT ![slots[y]] = EmptySlot]
      BY <1>3 DEF ServeModule, free_module_and_shift_array
  <2>2. Loaded \subseteq Loaded' \cup {slots[y]}
    <3>1. slots \in Seq(Modules)
        BY <1>1 DEF TypeOK
    <3>2. \A i \in DOMAIN slots : i # y => \E j \in DOMAIN slots' : slots'[j] = slots[i]
        BY <1>2, <2>1, <3>1, ShiftFacts
    <3> QED BY <3>2 DEF Loaded
  <2>3. Pid(slots[y]) \notin Pids
      BY <1>1, <1>2, <1>3 DEF IInv, StatusInv, Removable
  <2>4. ASSUME NEW m \in Modules
        PROVE  /\ m = slots[y] => /\ running_modules'[m].module_pid = NoPid
                                  /\ ~running_modules'[m].module_status
                                  /\ ~running_modules'[m].sent_sigint
               /\ m # slots[y] => running_modules'[m] = running_modules[m]
      BY <1>1, <2>1, SlotFacts DEF TypeOK
  <2>5. NoPid \notin Pids
      BY SupervisorAssumption
  <2>6. UnloadedInv'
      BY <2>2, <2>4 DEF IInv, UnloadedInv, Pid
  <2>7. OwnerInv'
      BY <1>1, <2>4, <2>5 DEF IInv, OwnerInv, Pid, InUse
  <2>8. StatusInv'
      BY <1>1, <2>4, <2>5 DEF IInv, StatusInv, Pid
  <2>9. FreshInv' /\ LoadInv'
      BY <1>1 DEF FreshInv, LoadInv
  <2>10. EveryProcessRecorded'
    <3>1. \A p \in Pids : proc[p].mod \in Modules
        BY <1>1 DEF TypeOK, Process
    <3> QED BY <1>1, <2>3, <2>4, <3>1 DEF IInv, EveryProcessRecorded, Exists, Pid
  <2>11. AskedInv'
      BY <1>1, <2>4, <2>5 DEF IInv, AskedInv, Alive, Pid
  <2>12. AskedBeforeForced'
      BY <1>1 DEF IInv, AskedBeforeForced, Alive
  <2> QED BY <1>1, <2>6, <2>7, <2>8, <2>9, <2>10, <2>11, <2>12 DEF IInv
<1>4. CASE ~Removable(running_modules[slots[y]])
  <2>1. ASSUME NEW m \in Modules
        PROVE  /\ running_modules'[m].module_pid = Pid(m)
               /\ running_modules'[m].module_status = Status(m)
               /\ running_modules'[m].sent_sigint = running_modules[m].sent_sigint
    <3>1. /\ running_modules[m] \in ModuleRecord
          /\ running_modules'[m] \in {running_modules[m], Served(running_modules[m])}
        BY <1>1, <1>4 DEF TypeOK, ServeModule
    <3> QED BY <3>1, ServedFacts DEF Pid, Status
  <2>2. Loaded' = Loaded
      BY <1>4 DEF ServeModule, Loaded
  <2> QED BY <1>1, <2>1, <2>2, QuietInv
<1> QED BY <1>3, <1>4

(***************************************************************************)
(* The end of the serving loop changes no record.                          *)
(***************************************************************************)
LEMMA ServeDoneStep ==
    ASSUME IInv, ServeDone
    PROVE  IInv'
<1>1. TypeOK'
    BY ServiceType DEF IInv, ServiceStep
<1>2. /\ pc = "serve" /\ pc' = "report"
      /\ UNCHANGED <<slots, running_modules, proc>>
    BY DEF ServeDone, Go, tables
<1>3. Loaded' = Loaded
    BY <1>2 DEF Loaded
<1> QED BY <1>1, <1>2, <1>3, QuietInv DEF Pid, Status

(***************************************************************************)
(* The service thread keeps the invariant.                                 *)
(***************************************************************************)
LEMMA ServiceInv == IInv /\ ServiceStep => IInv'
<1> SUFFICES ASSUME IInv, ServiceStep PROVE IInv'
    OBVIOUS
<1>1. CASE Go("idle", "update") /\ service_check_modules_status
    BY <1>1, CheckInv DEF Go
<1>2. CASE Go("update", "sigint") /\ service_update_modules_status
    BY <1>2, UpdateStep
<1>3. CASE Go("sigint", "clean") /\ service_stop_modules_sigint
    BY <1>3, SigintStep
<1>4. CASE Go("clean", "check") /\ service_clean_after_children
    BY <1>4, CleanStep DEF Go
<1>5. CASE Go("check", "sigkill") /\ service_check_modules_status
    BY <1>5, CheckInv DEF Go
<1>6. CASE Go("sigkill", "cleanagain") /\ service_stop_modules_sigkill
    BY <1>6, SigkillStep
<1>7. CASE Go("cleanagain", "serve") /\ service_clean_after_children
    BY <1>7, CleanStep DEF Go
<1>8. CASE ServeModule
    BY <1>8, ServeInv
<1>9. CASE ServeDone
    BY <1>9, ServeDoneStep
<1>10. CASE Go("report", "receive") /\ service_check_modules_status
    BY <1>10, CheckInv DEF Go
<1>11. CASE Go("receive", "idle") /\ service_check_modules_status
    BY <1>11, CheckInv DEF Go
<1> QED BY <1>1, <1>2, <1>3, <1>4, <1>5, <1>6, <1>7, <1>8, <1>9, <1>10, <1>11
        DEF ServiceStep

(***************************************************************************)
(* Commands and the beginning of a reload change switches, never a process.*)
(***************************************************************************)
LEMMA CommandInv == IInv /\ Command => IInv'
<1> SUFFICES ASSUME IInv, Command PROVE IInv'
    OBVIOUS
<1>1. TypeOK /\ TypeOK'
    BY CommandType DEF IInv
<1>2. /\ pc = "idle" /\ pc' \in {"idle", "reload"}
      /\ UNCHANGED <<slots, proc>>
    BY DEF Command, interactive_set_enabled, interactive_set_disabled,
       interactive_restart_module, SetProfile, ReloadBegin, MayCommand, tables
<1>3. ASSUME NEW x \in ModuleRecord
      PROVE  /\ [x EXCEPT !.module_enabled = TRUE, !.restart_cnt = -1].module_pid
                   = x.module_pid
             /\ [x EXCEPT !.module_enabled = TRUE, !.restart_cnt = -1].module_status
                   = x.module_status
             /\ [x EXCEPT !.module_enabled = TRUE, !.restart_cnt = -1].sent_sigint
                   = x.sent_sigint
             /\ [x EXCEPT !.module_enabled = FALSE].module_pid = x.module_pid
             /\ [x EXCEPT !.module_enabled = FALSE].module_status = x.module_status
             /\ [x EXCEPT !.module_enabled = FALSE].sent_sigint = x.sent_sigint
             /\ [x EXCEPT !.served = FALSE, !.module_enabled = FALSE,
                          !.init_module = TRUE].module_pid = x.module_pid
             /\ [x EXCEPT !.served = FALSE, !.module_enabled = FALSE,
                          !.init_module = TRUE].module_status = x.module_status
             /\ [x EXCEPT !.served = FALSE, !.module_enabled = FALSE,
                          !.init_module = TRUE].sent_sigint = x.sent_sigint
    BY DEF ModuleRecord
<1>4. ASSUME NEW n \in Modules
      PROVE  /\ running_modules'[n].module_pid = Pid(n)
             /\ running_modules'[n].module_status = Status(n)
             /\ running_modules'[n].sent_sigint = running_modules[n].sent_sigint
  <2> DEFINE r == running_modules[n]
  <2>1. \/ running_modules'[n] = r
        \/ running_modules'[n] = [r EXCEPT !.module_enabled = TRUE, !.restart_cnt = -1]
        \/ running_modules'[n] = [r EXCEPT !.module_enabled = FALSE]
        \/ running_modules'[n] = [r EXCEPT !.served = FALSE, !.module_enabled = FALSE,
                                           !.init_module = TRUE]
        \/ running_modules'[n] = Reset(r)
      BY DEF Command, interactive_set_enabled, interactive_set_disabled,
         interactive_restart_module, SetProfile, ReloadBegin, Update
  <2>2. r \in ModuleRecord
      BY <1>1 DEF TypeOK
  <2> HIDE DEF r
  <2>3. /\ running_modules'[n].module_pid = r.module_pid
        /\ running_modules'[n].module_status = r.module_status
        /\ running_modules'[n].sent_sigint = r.sent_sigint
      BY <1>3, <2>1, <2>2, ResetFacts, ZenonT(40)
  <2> QED BY <2>3 DEF r, Pid, Status
<1>5. Loaded' = Loaded
    BY <1>2 DEF Loaded
<1> QED BY <1>1, <1>2, <1>4, <1>5, QuietInv

(***************************************************************************)
(* Appending a name loads that module and no other.                        *)
(***************************************************************************)
LEMMA AppendLoads ==
    ASSUME TypeOK, NEW m \in Modules, slots' = Append(slots, m)
    PROVE  Loaded' = Loaded \cup {m}
<1>1. slots \in Seq(Modules)
    BY DEF TypeOK
<1>2. /\ slots' \in Seq(Modules) /\ Len(slots') = Len(slots) + 1
      /\ \A i \in 1..Len(slots) : slots'[i] = slots[i]
      /\ slots'[Len(slots) + 1] = m
    BY <1>1, AppendProperties
<1>3. /\ Len(slots) \in Nat /\ DOMAIN slots = 1..Len(slots)
      /\ DOMAIN slots' = 1..(Len(slots) + 1)
    BY <1>1, <1>2, LenProperties
<1> QED BY <1>2, <1>3 DEF Loaded

(***************************************************************************)
(* One element of a reload: a new module gets an empty slot, a known one   *)
(* keeps its process.                                                      *)
(***************************************************************************)
LEMMA ReloadModuleStep ==
    ASSUME IInv, ReloadModule, pc = "reload"
    PROVE  IInv'
<1>1. TypeOK /\ TypeOK'
    BY ReloadType DEF IInv, Reload
<1>2. BackupPid(Element) = NoPid /\ NoPid \notin Pids
    BY SupervisorAssumption DEF BackupPid
<1>3. /\ Element.name \in Modules
      /\ After.module_pid = Before.module_pid
      /\ After.module_status = Before.module_status
      /\ After.sent_sigint = Before.sent_sigint
      /\ slots' = IF Fresh THEN Append(slots, Element.name) ELSE slots
      /\ running_modules' = [running_modules EXCEPT ![Element.name] = After]
    BY <1>1, <1>2, ReloadFacts
<1>4. /\ Before.module_pid = Pid(Element.name)
      /\ Before.module_status = Status(Element.name)
      /\ Before.sent_sigint => running_modules[Element.name].sent_sigint
  <2>1. CASE Fresh
    <3>1. Pid(Element.name) = NoPid
        BY <1>3, <2>1 DEF IInv, UnloadedInv, Fresh
    <3>2. Status(Element.name) = FALSE
      <4>1. Status(Element.name) \in BOOLEAN
          BY <1>1, <1>3 DEF TypeOK, ModuleRecord, Status
      <4>2. ~Status(Element.name)
          BY <1>2, <1>3, <3>1 DEF IInv, StatusInv, Status
      <4> QED BY <4>1, <4>2
    <3>3. /\ Before \in {EmptySlot, GrownSlot}
        BY <2>1 DEF Before
    <3>4. /\ EmptySlot.module_status = FALSE /\ GrownSlot.module_status = FALSE
      <4>1. EmptySlot.module_status \in BOOLEAN /\ GrownSlot.module_status \in BOOLEAN
          BY SlotFacts DEF ModuleRecord
      <4> QED BY <4>1, SlotFacts
    <3> QED BY <3>1, <3>2, <3>3, <3>4, SlotFacts
  <2>2. CASE ~Fresh
      BY <2>2 DEF Before, Pid, Status
  <2> QED BY <2>1, <2>2
<1>5. \A m \in Modules :
         /\ running_modules'[m].module_pid = Pid(m)
         /\ running_modules'[m].module_status = Status(m)
         /\ running_modules'[m].sent_sigint => running_modules[m].sent_sigint
    BY <1>1, <1>3, <1>4 DEF TypeOK, Pid, Status
<1>6. Loaded \subseteq Loaded'
  <2>1. CASE Fresh
      BY <1>1, <1>3, <2>1, AppendLoads
  <2>2. CASE ~Fresh
      BY <1>3, <2>2 DEF Loaded
  <2> QED BY <2>1, <2>2
<1>7. proc' = proc /\ pc' = "reload"
    BY DEF ReloadModule
<1> QED BY <1>1, <1>5, <1>6, <1>7, QuietInv

(***************************************************************************)
(* One element of the first load: the slot adopts the process of the       *)
(* backup, and no other slot has adopted it.                               *)
(***************************************************************************)
LEMMA LoadModuleStep ==
    ASSUME IInv, ReloadModule, pc = "load"
    PROVE  IInv'
<1> DEFINE m == Element.name
           p0 == Element.module_pid
<1>1. TypeOK /\ TypeOK' /\ pc' = "load" /\ proc' = proc /\ config' = config /\ y' = y + 1
    BY ReloadType DEF IInv, Reload, ReloadModule
<1>2. NoPid \notin Pids /\ BackupPid(Element) = p0
    BY SupervisorAssumption DEF BackupPid
<1>3. /\ y \in DOMAIN config.modules /\ m \in Modules
      /\ DOMAIN config.modules = 1..Len(config.modules)
      /\ y \in Nat \ {0} /\ Len(config.modules) \in Nat
  <2>1. config.modules \in Seq(ModuleElement) /\ y \in Nat \ {0}
      BY <1>1 DEF TypeOK, Configuration
  <2> QED BY <1>1, <2>1, LenProperties, ReloadFacts
<1>4. /\ UniqueNames(config)
      /\ Loaded = {config.modules[i].name : i \in 1..(y - 1)}
      /\ \A i \in DOMAIN config.modules :
            /\ config.modules[i].module_pid \in Pids =>
                  /\ proc[config.modules[i].module_pid].state \notin {"free", "lost"}
                  /\ proc[config.modules[i].module_pid].mod = config.modules[i].name
            /\ i < y => Pid(config.modules[i].name) = config.modules[i].module_pid
      /\ \A p \in Pids : proc[p].state \notin {"free", "lost"} =>
            \E i \in DOMAIN config.modules : config.modules[i].module_pid = p
    BY DEF IInv, LoadInv, InUse
<1>5. Element = config.modules[y]
    BY DEF Element
<1>6. \A i \in DOMAIN config.modules : config.modules[i].name = m => i = y
    BY <1>3, <1>4, <1>5 DEF UniqueNames
<1>7. Fresh
  <2>1. m \notin {config.modules[i].name : i \in 1..(y - 1)}
      BY <1>3, <1>6
  <2> QED BY <1>4, <2>1 DEF Fresh
<1>8. /\ running_modules' = [running_modules EXCEPT ![m] = After]
      /\ Loaded' = Loaded \cup {m}
  <2>1. /\ running_modules' = [running_modules EXCEPT ![m] = After]
        /\ slots' = Append(slots, m)
      BY <1>1, <1>7, ReloadFacts
  <2> QED BY <1>1, <1>3, <2>1, AppendLoads
<1>9. After.module_pid = p0 /\ ~After.module_status /\ ~After.sent_sigint
  <2>1. Before \in {EmptySlot, GrownSlot}
      BY <1>7 DEF Before
  <2>2. Before.module_pid = NoPid /\ ~Before.module_status /\ ~Before.sent_sigint
      BY <2>1, SlotFacts
  <2>3. /\ After.module_pid = IF p0 = NoPid THEN Before.module_pid ELSE p0
        /\ After.module_status = Before.module_status
        /\ p0 \in Pids => ~After.sent_sigint
        /\ p0 \notin Pids => After.sent_sigint = Before.sent_sigint
      BY <1>1, <1>2, ReloadFacts
  <2> QED BY <2>2, <2>3
<1> HIDE DEF m, p0
<1>10. ASSUME NEW n \in Modules
       PROVE  /\ n = m => /\ running_modules'[n].module_pid = p0
                          /\ ~running_modules'[n].module_status
                          /\ ~running_modules'[n].sent_sigint
              /\ n # m => running_modules'[n] = running_modules[n]
    BY <1>1, <1>8, <1>9 DEF TypeOK
<1>11. p0 \in Pids => proc[p0].state \notin {"free", "lost"} /\ proc[p0].mod = m
    BY <1>3, <1>4, <1>5 DEF p0, m
<1>12. UnloadedInv'
    BY <1>8, <1>10 DEF IInv, UnloadedInv, Pid
<1>13. OwnerInv'
  <2>1. ASSUME NEW n \in Modules, Pid(n) \in Pids
        PROVE  proc[Pid(n)].mod = n
    <3>1. n \in Loaded
        BY <1>2, <2>1 DEF IInv, UnloadedInv
    <3>2. PICK i \in 1..(y - 1) : n = config.modules[i].name
        BY <1>4, <3>1
    <3>3. i \in DOMAIN config.modules /\ i < y
        BY <1>3
    <3> QED BY <1>4, <2>1, <3>2, <3>3
  <2>2. ASSUME NEW n \in Modules, running_modules'[n].module_pid \in Pids
        PROVE  proc[running_modules'[n].module_pid].mod = n
      BY <1>10, <1>11, <2>1, <2>2 DEF Pid
  <2> QED BY <1>1, <2>2 DEF OwnerInv, Pid
<1>14. StatusInv'
    BY <1>1, <1>10 DEF IInv, StatusInv, Pid
<1>15. FreshInv' /\ EveryProcessRecorded'
    BY <1>1 DEF FreshInv, EveryProcessRecorded
<1>16. LoadInv'
  <2>1. Loaded' = {config.modules[i].name : i \in 1..((y + 1) - 1)}
    <3>1. 1..((y + 1) - 1) = (1..(y - 1)) \cup {y}
        BY <1>3
    <3> QED BY <1>4, <1>5, <1>8, <3>1 DEF m
  <2>2. ASSUME NEW i \in DOMAIN config.modules, i < y + 1
        PROVE  running_modules'[config.modules[i].name].module_pid
                   = config.modules[i].module_pid
    <3>1. CASE i = y
        BY <1>3, <1>5, <1>10, <3>1 DEF m, p0
    <3>2. CASE i < y
      <4>1. config.modules[i].name # m
          BY <1>3, <1>6, <3>2
      <4>2. config.modules[i].name \in Modules
        <5>1. config.modules \in Seq(ModuleElement)
            BY <1>1 DEF TypeOK, Configuration
        <5>2. config.modules[i] \in ModuleElement
            BY <1>3, <5>1, ElementOfSeq
        <5> QED BY <5>2 DEF ModuleElement
      <4> QED BY <1>4, <1>10, <3>2, <4>1, <4>2 DEF Pid
    <3> QED BY <1>3, <2>2, <3>1, <3>2
  <2>3. y + 1 <= Len(config.modules) + 1
      BY <1>3
  <2> QED BY <1>1, <1>4, <2>1, <2>2, <2>3 DEF LoadInv, Pid, InUse
<1>17. AskedInv'
    BY <1>1, <1>10 DEF IInv, AskedInv, Alive, Pid
<1>18. AskedBeforeForced'
    BY <1>1 DEF IInv, AskedBeforeForced, Alive
<1> QED BY <1>1, <1>12, <1>13, <1>14, <1>15, <1>16, <1>17, <1>18 DEF IInv

(***************************************************************************)
(* The end of a load: every element has been adopted, so every process is  *)
(* recorded.                                                               *)
(***************************************************************************)
LEMMA ReloadEndStep ==
    ASSUME IInv, ReloadEnd
    PROVE  IInv'
<1>1. TypeOK /\ TypeOK'
    BY ReloadType DEF IInv, Reload
<1>2. /\ pc' = "idle" /\ UNCHANGED <<slots, proc>>
      /\ y > Len(config.modules)
    BY DEF ReloadEnd, tables
<1>3. ASSUME NEW x \in ModuleRecord
      PROVE  /\ [x EXCEPT !.served = FALSE].module_pid = x.module_pid
             /\ [x EXCEPT !.served = FALSE].module_status = x.module_status
             /\ [x EXCEPT !.served = FALSE].sent_sigint = x.sent_sigint
             /\ [x EXCEPT !.served = FALSE, !.module_enabled = FALSE,
                          !.remove_module = TRUE].module_pid = x.module_pid
             /\ [x EXCEPT !.served = FALSE, !.module_enabled = FALSE,
                          !.remove_module = TRUE].module_status = x.module_status
             /\ [x EXCEPT !.served = FALSE, !.module_enabled = FALSE,
                          !.remove_module = TRUE].sent_sigint = x.sent_sigint
    BY DEF ModuleRecord
<1>4. ASSUME NEW m \in Modules
      PROVE  /\ running_modules'[m].module_pid = Pid(m)
             /\ running_modules'[m].module_status = Status(m)
             /\ running_modules'[m].sent_sigint = running_modules[m].sent_sigint
  <2> DEFINE r == running_modules[m]
  <2>1. \/ running_modules'[m] = r
        \/ running_modules'[m] = [r EXCEPT !.served = FALSE]
        \/ running_modules'[m] = [r EXCEPT !.served = FALSE, !.module_enabled = FALSE,
                                           !.remove_module = TRUE]
      BY DEF ReloadEnd
  <2>2. r \in ModuleRecord
      BY <1>1 DEF TypeOK
  <2> HIDE DEF r
  <2>3. /\ running_modules'[m].module_pid = r.module_pid
        /\ running_modules'[m].module_status = r.module_status
        /\ running_modules'[m].sent_sigint = r.sent_sigint
      BY <1>3, <2>1, <2>2
  <2> QED BY <2>3 DEF r, Pid, Status
<1>5. Loaded' = Loaded
    BY <1>2 DEF Loaded
<1>6. ASSUME pc = "load", NEW p \in Pids, Exists(p)
      PROVE  Pid(proc[p].mod) = p
  <2>1. PICK i \in DOMAIN config.modules : config.modules[i].module_pid = p
      BY <1>6 DEF IInv, LoadInv, InUse, Exists
  <2>2. i < y
    <3>1. config.modules \in Seq(ModuleElement) /\ y \in Nat
        BY <1>1 DEF TypeOK, Configuration
    <3>2. DOMAIN config.modules = 1..Len(config.modules) /\ Len(config.modules) \in Nat
        BY <3>1, LenProperties
    <3> QED BY <1>2, <3>1, <3>2
  <2>3. /\ proc[p].mod = config.modules[i].name
        /\ Pid(config.modules[i].name) = p
      BY <1>6, <2>1, <2>2 DEF IInv, LoadInv
  <2> QED BY <2>3
<1> QED BY <1>1, <1>2, <1>4, <1>5, <1>6, QuietInv

(***************************************************************************)
(* A process that ends keeps its identifier and its module until the       *)
(* supervisor has looked.                                                  *)
(***************************************************************************)
LEMMA ExitStep ==
    ASSUME IInv, NEW p \in Pids, Exit(p)
    PROVE  IInv'
<1>1. TypeOK /\ TypeOK'
    BY ExitType DEF IInv
<1>2. UNCHANGED <<pc, y, config, running_modules>> /\ Loaded' = Loaded
    BY DEF Exit, tables, Loaded
<1>3. \A q \in Pids : q # p => proc'[q] = proc[q]
    BY <1>1 DEF Exit, TypeOK
<1>4. /\ proc[p].state = "alive" /\ proc'[p].state \in {"zombie", "gone"}
      /\ proc'[p].mod = proc[p].mod
  <2>1. proc'[p] = Ended(proc[p]) /\ proc[p] \in Process
      BY <1>1 DEF Exit, TypeOK
  <2> QED BY <2>1, ProcessFacts DEF Exit, Alive
<1>5. \A q \in Pids : /\ proc'[q].mod = proc[q].mod
                      /\ proc'[q].state \in {"free", "lost"}
                            <=> proc[q].state \in {"free", "lost"}
                      /\ proc'[q].state = "alive" => proc'[q] = proc[q]
                      /\ proc'[q].state = "zombie" => proc[q].state \in {"alive", "zombie"}
    BY <1>3, <1>4
<1>6. UnloadedInv'
    BY <1>2 DEF IInv, UnloadedInv, Pid
<1>7. OwnerInv'
    BY <1>2, <1>5 DEF IInv, OwnerInv, Pid, InUse
<1>8. StatusInv' /\ FreshInv'
    BY <1>2, <1>5 DEF IInv, StatusInv, FreshInv, Pid, InUse
<1>9. LoadInv'
    BY <1>2, <1>5 DEF IInv, LoadInv, Pid, InUse, UniqueNames
<1>10. EveryProcessRecorded'
    BY <1>2, <1>5 DEF IInv, EveryProcessRecorded, Exists
<1>11. AskedInv' /\ AskedBeforeForced'
    BY <1>2, <1>5 DEF IInv, AskedInv, AskedBeforeForced, Alive, Pid
<1> QED BY <1>1, <1>6, <1>7, <1>8, <1>9, <1>10, <1>11 DEF IInv

(***************************************************************************)
(* The invariant is inductive.                                             *)
(***************************************************************************)
LEMMA NextInv == IInv /\ [Next]_vars => IInv'
<1> SUFFICES ASSUME IInv, [Next]_vars PROVE IInv'
    OBVIOUS
<1>1. CASE ServiceStep
    BY <1>1, ServiceInv
<1>2. CASE Command
    BY <1>2, CommandInv
<1>3. CASE Reload
  <2>1. CASE ReloadModule
    <3>1. pc \in {"load", "reload"}
        BY <2>1 DEF ReloadModule
    <3> QED BY <2>1, <3>1, ReloadModuleStep, LoadModuleStep
  <2> QED BY <1>3, <2>1, ReloadEndStep DEF Reload
<1>4. CASE \E p \in Pids : Exit(p)
    BY <1>4, ExitStep
<1>5. CASE UNCHANGED vars
  <2>1. Loaded' = Loaded
      BY <1>5 DEF vars, Loaded
  <2> QED BY <1>5, <2>1 DEF vars, IInv, TypeOK, UnloadedInv, OwnerInv, StatusInv, FreshInv,
          LoadInv, EveryProcessRecorded, AskedInv, AskedBeforeForced, Pid, InUse,
          Exists, Alive, UniqueNames
<1> QED BY <1>1, <1>2, <1>3, <1>4, <1>5 DEF Next

(***************************************************************************)
(* The supervisor starts with an empty table; the processes there may be   *)
(* are those of the backup.                                                *)
(***************************************************************************)
LEMMA StartInv ==
    ASSUME NEW c \in Configuration, UniqueNames(c), StartsWith(c), TypeOK,
           AskedBeforeForced,
           \A p \in Pids : InUse(p) =>
              \E i \in DOMAIN c.modules : c.modules[i].module_pid = p,
           \A i \in DOMAIN c.modules : c.modules[i].module_pid \in Pids =>
              /\ InUse(c.modules[i].module_pid)
              /\ proc[c.modules[i].module_pid].mod = c.modules[i].name
    PROVE  IInv
<1>1. pc = "load" /\ y = 1 /\ slots = <<>> /\ config = c
    BY DEF StartsWith
<1>2. \A m \in Modules : /\ Pid(m) = NoPid /\ ~running_modules[m].module_status
                         /\ ~running_modules[m].sent_sigint
    BY SlotFacts DEF StartsWith, Pid
<1>3. NoPid \notin Pids
    BY SupervisorAssumption
<1>4. UnloadedInv /\ OwnerInv /\ StatusInv /\ AskedInv
    BY <1>2, <1>3 DEF UnloadedInv, OwnerInv, StatusInv, AskedInv
<1>5. FreshInv /\ EveryProcessRecorded
    BY <1>1 DEF FreshInv, EveryProcessRecorded
<1>6. LoadInv
  <2>1. Loaded = {}
      BY <1>1 DEF Loaded
  <2>2. c.modules \in Seq(ModuleElement)
      BY DEF Configuration
  <2>3. Len(c.modules) \in Nat /\ DOMAIN c.modules = 1..Len(c.modules)
      BY <2>2, LenProperties
  <2>4. {c.modules[i].name : i \in 1..(y - 1)} = {}
      BY <1>1
  <2>5. \A i \in DOMAIN c.modules : ~(i < y)
      BY <1>1, <2>3
  <2>6. y <= Len(c.modules) + 1
      BY <1>1, <2>3
  <2> QED BY <1>1, <2>1, <2>4, <2>5, <2>6 DEF LoadInv
<1> QED BY <1>4, <1>5, <1>6 DEF IInv

(***************************************************************************)
(* It holds at the start, with a configuration as with a backup.           *)
(***************************************************************************)
LEMMA InitInv == Init => IInv
<1>1. ASSUME NEW c \in Configs, StartsWith(c), proc = [p \in Pids |-> FreeProcess], TypeOK
      PROVE  IInv
  <2>1. /\ c \in Configuration /\ UniqueNames(c)
        /\ \A i \in DOMAIN c.modules : c.modules[i].module_pid \notin Pids
      BY ConfigsAssumption, SupervisorAssumption
  <2>2. \A p \in Pids : ~InUse(p) /\ proc[p].forced = FALSE
      BY <1>1, ProcessFacts DEF InUse
  <2>3. AskedBeforeForced
      BY <2>2 DEF AskedBeforeForced
  <2> QED BY <1>1, <2>1, <2>2, <2>3, StartInv
<1>2. ASSUME NEW c \in Configs, NEW pid \in [DOMAIN c.modules -> Pids \cup {NoPid}],
             NEW ended \in SUBSET DOMAIN c.modules,
             \A i, j \in DOMAIN pid : pid[i] = pid[j] => i = j \/ pid[i] = NoPid,
             StartsWith(BackupOf(c, pid)), proc = Inherited(c, pid, ended), TypeOK
      PROVE  IInv
  <2> DEFINE b == BackupOf(c, pid)
  <2>1. /\ b \in Configuration /\ UniqueNames(b)
        /\ DOMAIN b.modules = DOMAIN c.modules
        /\ \A i \in DOMAIN b.modules : /\ b.modules[i].name = c.modules[i].name
                                       /\ b.modules[i].module_pid = pid[i]
      BY BackupFacts
  <2>2. /\ \A p \in Pids : proc[p].forced = FALSE
        /\ \A p \in Pids : InUse(p) => \E i \in DOMAIN pid : pid[i] = p
        /\ \A i \in DOMAIN pid : pid[i] \in Pids =>
              InUse(pid[i]) /\ proc[pid[i]].mod = c.modules[i].name
    <3> DEFINE t == Inherited(c, pid, ended)
    <3>1. /\ \A p \in Pids : t[p].forced = FALSE
          /\ \A p \in Pids : t[p].state \notin {"free", "lost"} => \E i \in DOMAIN pid : pid[i] = p
          /\ \A i \in DOMAIN pid : pid[i] \in Pids =>
                t[pid[i]].state \notin {"free", "lost"} /\ t[pid[i]].mod = c.modules[i].name
        BY <1>2, InheritedFacts, Zenon
    <3>2. proc = t
        BY <1>2
    <3> HIDE DEF t
    <3> QED BY <3>1, <3>2, Zenon DEF InUse
  <2>3. StartsWith(b)
      BY <1>2
  <2> HIDE DEF b
  <2>4. \A p \in Pids : InUse(p) =>
           \E i \in DOMAIN b.modules : b.modules[i].module_pid = p
      BY <2>1, <2>2
  <2>5. \A i \in DOMAIN b.modules : b.modules[i].module_pid \in Pids =>
           /\ InUse(b.modules[i].module_pid)
           /\ proc[b.modules[i].module_pid].mod = b.modules[i].name
      BY <2>1, <2>2
  <2>6. AskedBeforeForced
      BY <2>2 DEF AskedBeforeForced
  <2> QED BY <1>2, <2>1, <2>3, <2>4, <2>5, <2>6, StartInv
<1> QED BY <1>1, <1>2, InitType DEF Init, Inherited

(***************************************************************************)
(* So it holds in every reachable state.                                   *)
(***************************************************************************)
LEMMA Invariance == Spec => []IInv
BY InitInv, NextInv, PTL DEF Spec

-----------------------------------------------------------------------------
(* The theorems. *)

(***************************************************************************)
(* No process is lost and no module runs twice: fork() is called only for  *)
(* a slot without a process and a slot with one is never freed, whatever   *)
(* the order of commands, reloads and exits.                               *)
(***************************************************************************)
THEOREM ProcessesRecorded == Spec => []EveryProcessRecorded
<1>1. IInv => EveryProcessRecorded
    BY DEF IInv
<1> QED BY <1>1, Invariance, PTL

(***************************************************************************)
(* When kill() is called, the identifier is the module's own.              *)
(***************************************************************************)
LEMMA SignalsOwn == IInv => SignalsHitOwnModule
<1> SUFFICES ASSUME IInv PROVE SignalsHitOwnModule
    OBVIOUS
<1>1. ToAsk \subseteq Modules /\ ToForce \subseteq Modules
    BY LoadedModules DEF IInv, ToAsk, ToForce
<1>2. ASSUME pc \in {"sigint", "sigkill"}, NEW m \in Modules, Status(m)
      PROVE  Pid(m) \in Pids /\ proc[Pid(m)].mod = m
    BY <1>2 DEF IInv, StatusInv, FreshInv, OwnerInv, Status
<1>3. \A m \in ToAsk \cup ToForce : Status(m)
    BY DEF ToAsk, ToForce, Status
<1> QED BY <1>1, <1>2, <1>3 DEF SignalsHitOwnModule, Pid

(***************************************************************************)
(* SIGINT and SIGKILL go to the process group of the module they are meant *)
(* for: between the status check and kill() the identifier cannot have     *)
(* been handed to another process, because it is not free.                 *)
(***************************************************************************)
THEOREM SignalsSafe == Spec => []SignalsHitOwnModule
BY SignalsOwn, Invariance, PTL

(***************************************************************************)
(* SIGKILL only ever follows a SIGINT to the same process: sent_sigint is  *)
(* cleared whenever the slot gets another process.                         *)
(***************************************************************************)
THEOREM SigintFirst == Spec => []AskedBeforeForced
<1>1. IInv => AskedBeforeForced
    BY DEF IInv
<1> QED BY <1>1, Invariance, PTL

-----------------------------------------------------------------------------
(* Supervisor implements ProcessLifecycle. *)

\* The stage a process has reached.
Mark(q) == IF q.forced THEN "forced" ELSE IF q.asked THEN "asked" ELSE "up"

\* A table in which no module has two running processes.
Single(t) ==
    \A p, q \in Pids :
        t[p].state = "alive" /\ t[q].state = "alive" /\ t[p].mod = t[q].mod => p = q

\* StageOf, as a function of the process table.
StageIn(t, m) ==
    LET own == {p \in Pids : t[p].state = "alive" /\ t[p].mod = m}
    IN  IF own = {} THEN "down"
        ELSE IF \E p, q \in own : p # q THEN "twice"
        ELSE IF \E p \in own : t[p].forced THEN "forced"
        ELSE IF \E p \in own : t[p].asked THEN "asked"
        ELSE "up"

(***************************************************************************)
(* In such a table a stage is that of the module's only process.           *)
(***************************************************************************)
LEMMA StageFacts ==
    ASSUME NEW t, Single(t), NEW m
    PROVE  /\ (\A p \in Pids : ~(t[p].state = "alive" /\ t[p].mod = m))
                 => StageIn(t, m) = "down"
           /\ \A p \in Pids : t[p].state = "alive" /\ t[p].mod = m
                 => StageIn(t, m) = Mark(t[p])
<1>1. ASSUME \A p \in Pids : ~(t[p].state = "alive" /\ t[p].mod = m)
      PROVE  StageIn(t, m) = "down"
    BY <1>1 DEF StageIn
<1>2. ASSUME NEW p \in Pids, t[p].state = "alive", t[p].mod = m
      PROVE  StageIn(t, m) = Mark(t[p])
  <2>1. {q \in Pids : t[q].state = "alive" /\ t[q].mod = m} = {p}
      BY <1>2 DEF Single
  <2> QED BY <2>1, Zenon DEF StageIn, Mark
<1> QED BY <1>1, <1>2

(***************************************************************************)
(* A table with at most one running process per module is what the slots   *)
(* record, or, during the first load, what the backup says.                *)
(***************************************************************************)
LEMMA SingleProcess == IInv => Single(proc)
<1> SUFFICES ASSUME IInv, NEW p \in Pids, NEW q \in Pids,
                    proc[p].state = "alive", proc[q].state = "alive",
                    proc[p].mod = proc[q].mod
             PROVE  p = q
    BY DEF Single
<1>1. CASE pc # "load"
    BY <1>1 DEF IInv, EveryProcessRecorded, Exists
<1>2. CASE pc = "load"
  <2>1. /\ UniqueNames(config)
        /\ \E i \in DOMAIN config.modules : config.modules[i].module_pid = p
        /\ \E j \in DOMAIN config.modules : config.modules[j].module_pid = q
      BY <1>2 DEF IInv, LoadInv, InUse
  <2>2. PICK i \in DOMAIN config.modules : config.modules[i].module_pid = p
      BY <2>1
  <2>3. PICK j \in DOMAIN config.modules : config.modules[j].module_pid = q
      BY <2>1
  <2>4. proc[p].mod = config.modules[i].name /\ proc[q].mod = config.modules[j].name
      BY <1>2, <2>2, <2>3 DEF IInv, LoadInv
  <2> QED BY <2>1, <2>2, <2>3, <2>4 DEF UniqueNames
<1> QED BY <1>1, <1>2

(***************************************************************************)
(* The two states of a step: tables with single processes, and the stages  *)
(* they stand for.                                                         *)
(***************************************************************************)
LEMMA StepFacts ==
    ASSUME IInv, IInv'
    PROVE  /\ Single(proc) /\ Single(proc')
           /\ Stage = [m \in Modules |-> StageIn(proc, m)]
           /\ Stage' = [m \in Modules |-> StageIn(proc', m)]
<1>1. Single(proc) /\ Single(proc)'
    BY SingleProcess, PTL
<1>2. Single(proc')
    BY <1>1 DEF Single
<1> QED BY <1>1, <1>2 DEF Stage, StageOf, StageIn, Alive

(***************************************************************************)
(* A step that leaves the running processes as they are is a stutter.      *)
(***************************************************************************)
LEMMA SameStages ==
    ASSUME IInv, IInv',
           \A p \in Pids : proc[p].state = "alive" \/ proc'[p].state = "alive"
                              => proc'[p] = proc[p]
    PROVE  Stage' = Stage
<1>1. ASSUME NEW m \in Modules PROVE StageIn(proc', m) = StageIn(proc, m)
  <2>1. CASE \E p \in Pids : proc[p].state = "alive" /\ proc[p].mod = m
      BY <2>1, StepFacts, StageFacts
  <2>2. CASE ~\E p \in Pids : proc[p].state = "alive" /\ proc[p].mod = m
      BY <2>2, StepFacts, StageFacts
  <2> QED BY <2>1, <2>2
<1> QED BY <1>1, StepFacts

(***************************************************************************)
(* The moves of the abstract specification, stage by stage.                *)
(***************************************************************************)
LEMMA MoveFacts ==
    ASSUME NEW from, NEW to,
           \A m \in Modules : \/ StageOf(m)' = StageOf(m)
                              \/ StageOf(m) = from /\ StageOf(m)' = to
    PROVE  Lifecycle!Move(from, to)
<1> DEFINE S == {m \in Modules : StageOf(m) = from /\ StageOf(m)' = to}
<1>1. S \in SUBSET {m \in Modules : [n \in Modules |-> StageOf(n)][m] = from}
    OBVIOUS
<1>2. [m \in Modules |-> StageOf(m)']
         = [m \in Modules |-> IF m \in S THEN to ELSE [n \in Modules |-> StageOf(n)][m]]
    OBVIOUS
<1> QED BY <1>1, <1>2 DEF Lifecycle!Move, Stage

(***************************************************************************)
(* The refinement mapping before and after a step.                         *)
(***************************************************************************)
LEMMA StageOfIn ==
    ASSUME NEW m \in Modules
    PROVE  StageOf(m) = StageIn(proc, m) /\ StageOf(m)' = StageIn(proc', m)
BY DEF StageOf, StageIn, Alive

(***************************************************************************)
(* fork(): only a module that is down gets a process.                      *)
(***************************************************************************)
LEMMA StartSim ==
    ASSUME IInv, IInv', Go("update", "sigint"), service_update_modules_status
    PROVE  Lifecycle!Start
<1>1. PICK child \in [ToStart -> FreePids \cup {ForkFailed}] :
        proc' = [p \in Pids |->
              IF \E m \in ToStart : child[m] = p
              THEN LET m == CHOOSE m \in ToStart : child[m] = p
                   IN  ProcessOf(m, running_modules[m].module_params, TRUE)
              ELSE proc[p]]
    BY DEF service_update_modules_status
<1>2. ToStart \subseteq Modules
    BY LoadedModules DEF IInv, ToStart, Down
<1>3. ASSUME NEW p \in Pids, proc'[p] # proc[p]
      PROVE  /\ proc[p].state = "free" /\ proc'[p].state = "alive"
             /\ Mark(proc'[p]) = "up"
  <2> DEFINE n == CHOOSE m \in ToStart : child[m] = p
  <2>1. \E m \in ToStart : child[m] = p
      BY <1>1, <1>3
  <2>2. n \in ToStart /\ child[n] = p
      BY <2>1
  <2>3. proc'[p] = ProcessOf(n, running_modules[n].module_params, TRUE)
      BY <1>1, <2>1
  <2> HIDE DEF n
  <2>4. proc[p].state = "free"
      BY <2>2, SupervisorAssumption DEF FreePids
  <2> QED BY <2>3, <2>4 DEF ProcessOf, Mark
<1>4. ASSUME NEW m \in Modules
      PROVE  \/ StageOf(m)' = StageOf(m)
             \/ StageOf(m) = "down" /\ StageOf(m)' = "up"
  <2>1. CASE \E p \in Pids : proc[p].state = "alive" /\ proc[p].mod = m
    <3>1. PICK p \in Pids : proc[p].state = "alive" /\ proc[p].mod = m
        BY <2>1
    <3>2. proc'[p] = proc[p]
        BY <1>3, <3>1
    <3> QED BY <3>1, <3>2, StepFacts, StageFacts, StageOfIn
  <2>2. CASE \A p \in Pids : ~(proc[p].state = "alive" /\ proc[p].mod = m)
    <3>1. StageOf(m) = "down"
        BY <2>2, StepFacts, StageFacts, StageOfIn
    <3>2. CASE \E p \in Pids : proc'[p].state = "alive" /\ proc'[p].mod = m
      <4>1. PICK p \in Pids : proc'[p].state = "alive" /\ proc'[p].mod = m
          BY <3>2
      <4>2. Mark(proc'[p]) = "up"
          BY <1>3, <2>2, <4>1
      <4>3. StageOf(m)' = "up"
          BY <4>1, <4>2, StepFacts, StageFacts, StageOfIn
      <4> QED BY <3>1, <4>3
    <3>3. CASE \A p \in Pids : ~(proc'[p].state = "alive" /\ proc'[p].mod = m)
      <4>1. StageOf(m)' = "down"
          BY <3>3, StepFacts, StageFacts, StageOfIn
      <4> QED BY <3>1, <4>1
    <3> QED BY <3>2, <3>3
  <2> QED BY <2>1, <2>2
<1> QED BY <1>4, MoveFacts DEF Lifecycle!Start

(***************************************************************************)
(* Signals move a running process on, and only from one stage to the next. *)
(***************************************************************************)
LEMMA SignalSim ==
    ASSUME IInv, IInv', NEW from, NEW to,
           \A p \in Pids : /\ proc'[p].state = proc[p].state
                           /\ proc'[p].mod = proc[p].mod,
           \A p \in Pids : proc[p].state = "alive" =>
              \/ Mark(proc'[p]) = Mark(proc[p])
              \/ Mark(proc[p]) = from /\ Mark(proc'[p]) = to
    PROVE  Lifecycle!Move(from, to)
<1>1. ASSUME NEW m \in Modules
      PROVE  \/ StageOf(m)' = StageOf(m)
             \/ StageOf(m) = from /\ StageOf(m)' = to
  <2>1. CASE \E p \in Pids : proc[p].state = "alive" /\ proc[p].mod = m
    <3>1. PICK p \in Pids : proc[p].state = "alive" /\ proc[p].mod = m
        BY <2>1
    <3>2. StageOf(m) = Mark(proc[p]) /\ StageOf(m)' = Mark(proc'[p])
        BY <3>1, StepFacts, StageFacts, StageOfIn
    <3> QED BY <3>1, <3>2
  <2>2. CASE \A p \in Pids : ~(proc[p].state = "alive" /\ proc[p].mod = m)
    <3>1. StageOf(m) = "down" /\ StageOf(m)' = "down"
        BY <2>2, StepFacts, StageFacts, StageOfIn
    <3> QED BY <3>1
  <2> QED BY <2>1, <2>2
<1> QED BY <1>1, MoveFacts

(***************************************************************************)
(* The SIGINT pass is a step of asking.                                    *)
(***************************************************************************)
LEMMA AskSim ==
    ASSUME IInv, IInv', service_stop_modules_sigint
    PROVE  Lifecycle!Ask
<1>1. ASSUME NEW p \in Pids
      PROVE  /\ proc'[p].state = proc[p].state /\ proc'[p].mod = proc[p].mod
             /\ \/ Mark(proc'[p]) = Mark(proc[p])
                \/ Mark(proc[p]) = "up" /\ Mark(proc'[p]) = "asked"
  <2>1. /\ proc[p] \in Process
        /\ \/ proc'[p] = proc[p]
           \/ proc'[p] = [proc[p] EXCEPT !.asked = TRUE]
      BY DEF IInv, TypeOK, service_stop_modules_sigint
  <2> QED BY <2>1, SignalFacts, ZenonT(40) DEF Mark
<1> QED BY <1>1, SignalSim DEF Lifecycle!Ask

(***************************************************************************)
(* The SIGKILL pass is a step of forcing: what is killed was asked.        *)
(***************************************************************************)
LEMMA ForceSim ==
    ASSUME IInv, IInv', service_stop_modules_sigkill
    PROVE  Lifecycle!Force
<1>1. ASSUME NEW p \in Pids
      PROVE  /\ proc'[p].state = proc[p].state /\ proc'[p].mod = proc[p].mod
             /\ proc'[p].asked = proc[p].asked
             /\ proc'[p] = proc[p] \/ proc'[p].forced
  <2>1. /\ proc[p] \in Process
        /\ \/ proc'[p] = proc[p]
           \/ proc'[p] = [proc[p] EXCEPT !.forced = TRUE]
      BY DEF IInv, TypeOK, service_stop_modules_sigkill
  <2>2. [proc[p] EXCEPT !.forced = TRUE].forced
      BY <2>1 DEF Process
  <2> QED BY <2>1, <2>2, SignalFacts
<1>2. ASSUME NEW p \in Pids, proc[p].state = "alive"
      PROVE  \/ Mark(proc'[p]) = Mark(proc[p])
             \/ Mark(proc[p]) = "asked" /\ Mark(proc'[p]) = "forced"
  <2>1. CASE proc'[p] = proc[p]
      BY <2>1
  <2>2. CASE proc'[p].forced
    <3>1. proc'[p].asked
        BY <1>1, <1>2, <2>2 DEF IInv, AskedBeforeForced, Alive
    <3>2. proc[p].asked
        BY <1>1, <3>1
    <3> QED BY <2>2, <3>2 DEF Mark
  <2> QED BY <1>1, <2>1, <2>2
<1> QED BY <1>1, <1>2, SignalSim DEF Lifecycle!Force

(***************************************************************************)
(* The end of a process takes its module down and leaves the others.       *)
(***************************************************************************)
LEMMA ExitSim ==
    ASSUME IInv, IInv', NEW p \in Pids, Exit(p)
    PROVE  \E m \in Modules : Lifecycle!Exit(m)
<1>1. /\ proc[p] \in Process /\ proc[p].state = "alive" /\ proc'[p] = Ended(proc[p])
      /\ \A q \in Pids : q # p => proc'[q] = proc[q]
    BY DEF IInv, TypeOK, Exit, Alive
<1>2. proc[p].mod \in Modules /\ proc'[p].state # "alive"
    BY <1>1, ProcessFacts DEF Process
<1>3. \A q \in Pids : proc'[q].state = "alive" => proc'[q] = proc[q] /\ q # p
    BY <1>1, <1>2
<1>4. PICK m \in Modules : m = proc[p].mod
    BY <1>2
<1>5. StageOf(m)' = "down"
  <2>1. \A q \in Pids : ~(proc'[q].state = "alive" /\ proc'[q].mod = m)
      BY <1>1, <1>3, <1>4, StepFacts DEF Single
  <2> QED BY <2>1, StepFacts, StageFacts, StageOfIn
<1>6. ASSUME NEW n \in Modules, n # m
      PROVE  StageOf(n)' = StageOf(n)
  <2>1. CASE \E q \in Pids : proc[q].state = "alive" /\ proc[q].mod = n
    <3>1. PICK q \in Pids : proc[q].state = "alive" /\ proc[q].mod = n
        BY <2>1
    <3>2. proc'[q] = proc[q]
        BY <1>1, <1>4, <1>6, <3>1
    <3> QED BY <3>1, <3>2, StepFacts, StageFacts, StageOfIn
  <2>2. CASE \A q \in Pids : ~(proc[q].state = "alive" /\ proc[q].mod = n)
    <3>1. \A q \in Pids : ~(proc'[q].state = "alive" /\ proc'[q].mod = n)
        BY <1>3, <2>2
    <3> QED BY <2>2, <3>1, StepFacts, StageFacts, StageOfIn
  <2> QED BY <2>1, <2>2
<1>7. [k \in Modules |-> StageOf(k)']
         = [[k \in Modules |-> StageOf(k)] EXCEPT ![m] = "down"]
    BY <1>5, <1>6
<1> QED BY <1>7 DEF Lifecycle!Exit, Stage

(***************************************************************************)
(* Every step of the supervisor and of its processes is a step of the      *)
(* abstract specification, or changes no stage.                            *)
(***************************************************************************)
LEMMA StepSim ==
    ASSUME IInv, IInv', [Next]_vars
    PROVE  [Lifecycle!Next]_Stage
<1>1. CASE service_check_modules_status
  <2>1. \A p \in Pids : proc[p].state = "alive" \/ proc'[p].state = "alive"
                            => proc'[p] = proc[p]
      BY <1>1, ProcessFacts DEF service_check_modules_status
  <2> QED BY <2>1, SameStages
<1>2. CASE service_clean_after_children
  <2>1. \A p \in Pids : proc[p].state = "alive" \/ proc'[p].state = "alive"
                            => proc'[p] = proc[p]
      BY <1>2, ProcessFacts DEF service_clean_after_children
  <2> QED BY <2>1, SameStages
<1>3. CASE Go("update", "sigint") /\ service_update_modules_status
    BY <1>3, StartSim DEF Lifecycle!Next
<1>4. CASE service_stop_modules_sigint
    BY <1>4, AskSim DEF Lifecycle!Next
<1>5. CASE service_stop_modules_sigkill
    BY <1>5, ForceSim DEF Lifecycle!Next
<1>6. CASE \E p \in Pids : Exit(p)
    BY <1>6, ExitSim DEF Lifecycle!Next
<1>7. CASE proc' = proc
    BY <1>7, SameStages
<1>8. \/ service_check_modules_status \/ service_clean_after_children
      \/ Go("update", "sigint") /\ service_update_modules_status
      \/ service_stop_modules_sigint \/ service_stop_modules_sigkill
      \/ \E p \in Pids : Exit(p)
      \/ proc' = proc
  <2>1. CASE ServiceStep
      BY <2>1 DEF ServiceStep, ServeModule, ServeDone
  <2>2. CASE Command
      BY <2>2 DEF Command, interactive_set_enabled, interactive_set_disabled,
         interactive_restart_module, SetProfile, ReloadBegin
  <2>3. CASE Reload
      BY <2>3 DEF Reload, ReloadModule, ReloadEnd
  <2>4. CASE UNCHANGED vars
      BY <2>4 DEF vars
  <2> QED BY <2>1, <2>2, <2>3, <2>4 DEF Next
<1> QED BY <1>1, <1>2, <1>3, <1>4, <1>5, <1>6, <1>7, <1>8

\* No running process has been signalled.
Unsignalled == \A p \in Pids : proc[p].state = "alive" => Mark(proc[p]) = "up"

(***************************************************************************)
(* At the start every process is one an earlier supervisor left, and has   *)
(* not been signalled by this one.                                         *)
(***************************************************************************)
LEMMA InitSim == Init => Lifecycle!Init
<1> SUFFICES ASSUME Init PROVE Lifecycle!Init
    OBVIOUS
<1>1. IInv
    BY InitInv
<1>2. Unsignalled
  <2>1. ASSUME NEW c \in Configs, StartsWith(c), proc = [p \in Pids |-> FreeProcess]
        PROVE  Unsignalled
      BY <2>1, ProcessFacts DEF Unsignalled
  <2>2. ASSUME NEW c \in Configs, NEW pid \in [DOMAIN c.modules -> Pids \cup {NoPid}],
               NEW ended \in SUBSET DOMAIN c.modules,
               \A i, j \in DOMAIN pid : pid[i] = pid[j] => i = j \/ pid[i] = NoPid,
               StartsWith(BackupOf(c, pid)), proc = Inherited(c, pid, ended)
        PROVE  Unsignalled
    <3> SUFFICES ASSUME NEW p \in Pids, proc[p].state = "alive"
                 PROVE  Mark(proc[p]) = "up"
        BY DEF Unsignalled
    <3> DEFINE i == CHOOSE i \in DOMAIN pid : pid[i] = p
               q == ProcessOf(c.modules[i].name, ElementParams(c.modules[i]), FALSE)
    <3>1. proc[p] \in {FreeProcess, Ended(q), q}
        BY <2>2 DEF Inherited
    <3>2. q.child = FALSE /\ q.forced = FALSE /\ q.asked = FALSE
        BY DEF ProcessOf
    <3> HIDE DEF q
    <3>3. proc[p] # FreeProcess
        BY ProcessFacts
    <3>4. proc[p] # Ended(q)
        BY <3>2, ProcessFacts DEF Ended, FreeProcess
    <3> QED BY <3>1, <3>2, <3>3, <3>4 DEF Mark
  <2> QED BY <2>1, <2>2 DEF Init, Inherited
<1>3. ASSUME NEW m \in Modules
      PROVE  StageOf(m) \in {"down", "up"}
  <2>1. Single(proc) /\ StageOf(m) = StageIn(proc, m)
      BY <1>1, SingleProcess, StageOfIn
  <2> QED BY <1>2, <2>1, StageFacts DEF Unsignalled
<1> QED BY <1>3 DEF Lifecycle!Init, Stage

(***************************************************************************)
(* The refinement: at most one process per module, and every process is    *)
(* started when there is none, asked with SIGINT and only then killed.     *)
(***************************************************************************)
THEOREM Refinement == Spec => ImplementsLifecycle
<1>1. IInv /\ IInv' /\ [Next]_vars => [Lifecycle!Next]_Stage
    BY StepSim
<1> QED BY <1>1, InitSim, Invariance, PTL DEF Spec, ImplementsLifecycle, Lifecycle!Spec
=============================================================================
