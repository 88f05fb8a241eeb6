----------------------------- MODULE Supervisor -----------------------------
(***************************************************************************)
(* The core of Nemea-Supervisor: the table of loaded modules, the service  *)
(* thread that starts, watches, stops and removes them, the commands of    *)
(* the operator and the reload of the configuration, over a small model of *)
(* the operating system's process table.                                   *)
(*                                                                         *)
(* The service thread holds running_modules_lock from the first line of a  *)
(* cycle to the last; the commands and the reload take the same lock.  So  *)
(* pc = "idle" says that the lock is free, and a command is one step.      *)
(* Processes take no lock: they exit between any two steps of a cycle.     *)
(***************************************************************************)
EXTENDS RestartCounter, Sequences, FiniteSets

CONSTANTS Modules,     \* module names
          Profiles,    \* names of module groups ("modules" elements)
          NoProfile,   \* modules_profile == NULL
          Params,      \* values of <params> (path and interfaces alike)
          NoParams,    \* <params> present and empty
          Absent,      \* <params> missing from the module element
          Pids,        \* process identifiers (positive) the kernel hands out
          NoPid,       \* module_pid == 0: no process recorded
          ForkFailed,  \* module_pid == -1
          Limits,      \* values of <module-restarts> in use
          DefaultLimit,\* DEFAULT_MODULE_RESTARTS_NUM (3)
          ArrayStart,  \* RUNNING_MODULES_ARRAY_START_SIZE (10)
          Configs,     \* the configurations an operator may load
          Privileged   \* modules whose process may not be signalled (EPERM)

\* One "module" element of a validated configuration; -1 is "no limit given".
\* Only the elements of a backup file have a module_pid attribute.
ModuleElement == [name : Modules,
                  module_enabled : BOOLEAN,
                  module_params : Params \cup {NoParams, Absent},
                  profile : Profiles,
                  max_restarts : Limits \cup {-1},
                  module_pid : Pids \cup {NoPid, ForkFailed}]

\* A validated configuration: its modules in document order, the switches of
\* its profiles and the limit of its "supervisor" element.
Configuration == [modules : Seq(ModuleElement),
                  profiles : [Profiles -> BOOLEAN],
                  restarts : Limits \cup {-1}]

ASSUME SupervisorAssumption ==
    /\ Modules # {}
    /\ NoProfile \notin Profiles
    /\ Absent \notin Params \cup {NoParams}
    /\ NoPid \notin Pids /\ ForkFailed \notin Pids /\ NoPid # ForkFailed
    /\ Limits \subseteq Nat /\ DefaultLimit \in Nat
    /\ ArrayStart \in Nat \ {0, 1}
    /\ Privileged \subseteq Modules

\* A validated configuration names a module at most once.
UniqueNames(c) ==
    \A i, j \in DOMAIN c.modules : c.modules[i].name = c.modules[j].name => i = j

ASSUME ConfigsAssumption ==
    \A c \in Configs :
        /\ c \in Configuration
        /\ UniqueNames(c)
        /\ \A i \in DOMAIN c.modules : c.modules[i].module_pid = NoPid

VARIABLES pc,                \* where the holder of running_modules_lock is
          y,                 \* loop index of the serving loop and the reload
          slots,             \* names in running_modules, in array order
          array_size,        \* running_modules_array_size
          prepared,          \* slots the reload's reset loop has reached
          running_modules,   \* the record of every module
          profile_enabled,   \* enabled flag of every profile
          restarts_config,   \* module_restarts_num_config
          config,            \* the document that is being loaded
          proc               \* the process table of the operating system

vars == <<pc, y, slots, array_size, prepared, running_modules,
          profile_enabled, restarts_config, config, proc>>

(***************************************************************************)
(* running_module_t, without the statistics and the service interface.     *)
(* `served' is module_served_by_service_thread.                            *)
(***************************************************************************)
ModuleRecord == [module_enabled : BOOLEAN,
                 module_status : BOOLEAN,
                 module_pid : Pids \cup {NoPid, ForkFailed},
                 module_running : BOOLEAN,
                 module_is_my_child : BOOLEAN,
                 module_root_perm_needed : BOOLEAN,
                 sent_sigint : BOOLEAN,
                 served : BOOLEAN,
                 init_module : BOOLEAN,
                 remove_module : BOOLEAN,
                 restart_cnt : Int,
                 restart_timer : 0..(Periods - 1),
                 max_restarts : Limits \cup {-1, 0},
                 module_params : Params \cup {NoParams},
                 profile : Profiles \cup {NoProfile}]

\* A zeroed slot after the reset loop of the reload; also the record of every
\* name that is not loaded.
EmptySlot == [module_enabled |-> FALSE,
              module_status |-> FALSE,
              module_pid |-> NoPid,
              module_running |-> FALSE,
              module_is_my_child |-> TRUE,
              module_root_perm_needed |-> FALSE,
              sent_sigint |-> FALSE,
              served |-> FALSE,
              init_module |-> FALSE,
              remove_module |-> FALSE,
              restart_cnt |-> 0,
              restart_timer |-> 0,
              max_restarts |-> -1,
              module_params |-> NoParams,
              profile |-> NoProfile]

(***************************************************************************)
(* A process.  "zombie": ended, not yet reaped by its parent, so its       *)
(* identifier is still taken.  "gone": ended and not a child of this       *)
(* supervisor, so nothing holds its identifier; the model lets the kernel  *)
(* reuse it once the supervisor has had a chance to look (identifiers are  *)
(* handed out cyclically).  "lost": runs on, unknown to this supervisor    *)
(* (see Shutdown).  `asked' and `forced' remember the signals the process  *)
(* was sent, `args' the parameters it was executed with.                   *)
(***************************************************************************)
Process == [state : {"free", "alive", "zombie", "gone", "lost"},
            mod : Modules,
            args : Params \cup {NoParams},
            child : BOOLEAN,
            asked : BOOLEAN,
            forced : BOOLEAN]

ProcessOf(m, params, child) ==
    [state |-> "alive", mod |-> m, args |-> params, child |-> child,
     asked |-> FALSE, forced |-> FALSE]

\* An entry of the table that is not in use.
FreeProcess == [state |-> "free", mod |-> CHOOSE m \in Modules : TRUE,
                args |-> NoParams, child |-> FALSE,
                asked |-> FALSE, forced |-> FALSE]

\* What is left of a process that has ended: a child waits to be reaped.
Ended(q) == [FreeProcess EXCEPT !.state = IF q.child THEN "zombie" ELSE "gone",
                                !.mod = q.mod, !.child = q.child]

Alive(p) == proc[p].state = "alive"

Exists(p) == proc[p].state \in {"alive", "zombie"}

FreePids == {p \in Pids : proc[p].state = "free"}

-----------------------------------------------------------------------------
(* Helpers over the table. *)

Loaded == {slots[i] : i \in DOMAIN slots}

\* The module has a profile, and the profile is disabled.
ProfileDisabled(r) == r.profile # NoProfile /\ ~profile_enabled[r.profile]

\* The module has a profile, and the profile is enabled.
ProfileEnabled(r) == r.profile # NoProfile /\ profile_enabled[r.profile]

\* The condition under which a running module is stopped.
ToBeStopped(r) == ProfileDisabled(r) \/ ~r.module_enabled

Names(c) == {c.modules[i].name : i \in DOMAIN c.modules}

\* Change the records of the modules in S only.
Update(S, new(_)) ==
    running_modules' = [m \in Modules |->
        IF m \in S THEN new(running_modules[m]) ELSE running_modules[m]]

\* kill(-pid, signal): an ended process and a privileged one are not touched.
Signalled(S, p) ==
    \E m \in S \ Privileged : running_modules[m].module_pid = p /\ Alive(p)

-----------------------------------------------------------------------------
(* The service thread: one action per function it calls, in its order.     *)

Go(from, to) == pc = from /\ pc' = to

tables == <<slots, array_size, prepared, profile_enabled, restarts_config, config>>

\* Mutant: an ended process is noticed, but the slot keeps its status.
CheckedPidOnly(r, m) ==
    IF r.module_pid \notin Pids THEN r
    ELSE IF Exists(r.module_pid)
         THEN [r EXCEPT !.module_status = TRUE,
                        !.module_root_perm_needed = m \in Privileged]
         ELSE [r EXCEPT !.module_pid = NoPid]

\* kill(pid, 0) for every recorded process.  A zombie still answers.
Checked(r, m) ==
    IF r.module_pid \notin Pids THEN r
    ELSE IF Exists(r.module_pid)
         THEN [r EXCEPT !.module_status = TRUE,
                        !.module_root_perm_needed = m \in Privileged]
         ELSE [r EXCEPT !.module_status = FALSE, !.module_pid = NoPid]

service_check_modules_status ==
    /\ running_modules' = [m \in Modules |-> Checked(running_modules[m], m)]
    /\ proc' = [p \in Pids |-> IF proc[p].state = "gone"
                               THEN FreeProcess ELSE proc[p]]
    /\ UNCHANGED <<tables, y>>

Ticked(r) ==
    [r EXCEPT !.restart_timer = NextTimer(r.restart_timer),
              !.restart_cnt = NextCnt(r.restart_cnt, r.restart_timer)]

\* Mutant: the new process inherits sent_sigint.
InitWithoutSigint(r) == [r EXCEPT !.module_running = TRUE]

init_module_variables(r) ==
    [r EXCEPT !.module_running = TRUE, !.sent_sigint = FALSE]

\* Mutant: the result of fork() is not tested.
StartUntested(r, child) ==
    [init_module_variables(r) EXCEPT !.module_pid = child,
                                     !.module_status = TRUE,
                                     !.restart_cnt = @ + 1]

\* `child' is what fork() returned to the supervisor.
service_start_module(r, child) ==
    LET s == [init_module_variables(r) EXCEPT
                 !.module_pid = child,
                 !.module_status = child # ForkFailed,
                 !.restart_cnt = @ + 1]
    IN  IF child = ForkFailed THEN s
        ELSE [s EXCEPT !.module_is_my_child = TRUE,
                       !.restart_timer = TimerAfterStart(r.restart_cnt, @)]

\* Modules that are down although they and their profile are enabled.
Down == {m \in Loaded : /\ ProfileEnabled(running_modules[m])
                        /\ running_modules[m].module_enabled
                        /\ ~running_modules[m].module_status}

OutOfRestarts == {m \in Down :
    LimitReached(Ticked(running_modules[m]).restart_cnt,
                 MaxRestarts(running_modules[m].max_restarts, restarts_config))}

ToStart == Down \ OutOfRestarts

service_update_modules_status ==
    \E child \in [ToStart -> FreePids \cup {ForkFailed}] :
        /\ \A m, n \in ToStart :
               child[m] = child[n] => m = n \/ child[m] = ForkFailed
        /\ running_modules' = [m \in Modules |->
              LET r == Ticked(running_modules[m])
              IN  IF m \in ToStart THEN service_start_module(r, child[m])
                  ELSE IF m \in OutOfRestarts
                       THEN [r EXCEPT !.module_enabled = FALSE]
                  ELSE IF m \in Loaded THEN r
                  ELSE running_modules[m]]
        /\ proc' = [p \in Pids |->
              IF \E m \in ToStart : child[m] = p
              THEN LET m == CHOOSE m \in ToStart : child[m] = p
                   IN  ProcessOf(m, running_modules[m].module_params, TRUE)
              ELSE proc[p]]
        /\ UNCHANGED <<tables, y>>

ToAsk == {m \in Loaded : LET r == running_modules[m] IN
            /\ r.module_status /\ ~r.module_root_perm_needed
            /\ ToBeStopped(r) /\ ~r.sent_sigint}

\* What a process does about SIGINT is its own business: it may exit.
service_stop_modules_sigint ==
    /\ Update(ToAsk, LAMBDA r : [r EXCEPT !.sent_sigint = TRUE,
                                         !.restart_cnt = -1])
    /\ proc' = [p \in Pids |-> IF Signalled(ToAsk, p)
                               THEN [proc[p] EXCEPT !.asked = TRUE]
                               ELSE proc[p]]
    /\ UNCHANGED <<tables, y>>

\* waitpid(WNOHANG) reaps a child that has ended; ECHILD clears the flag.
service_clean_after_children ==
    LET mine == {m \in Loaded : /\ running_modules[m].module_pid \in Pids
                                /\ running_modules[m].module_is_my_child}
        child(p) == Exists(p) /\ proc[p].child
        waited == {running_modules[m].module_pid : m \in mine}
    IN  /\ Update({m \in mine : ~child(running_modules[m].module_pid)},
                  LAMBDA r : [r EXCEPT !.module_is_my_child = FALSE])
        /\ proc' = [p \in Pids |->
              IF p \in waited /\ child(p) /\ proc[p].state = "zombie"
              THEN FreeProcess ELSE proc[p]]
        /\ UNCHANGED <<tables, y>>

\* Mutant: only the module's own switch is looked at.
ToForceOwnSwitch == {m \in Loaded : LET r == running_modules[m] IN
                       r.module_status /\ ~r.module_enabled /\ r.sent_sigint}

ToForce == {m \in Loaded : LET r == running_modules[m] IN
              r.module_status /\ ToBeStopped(r) /\ r.sent_sigint}

service_stop_modules_sigkill ==
    /\ Update(ToForce, LAMBDA r : [r EXCEPT !.restart_cnt = -1])
    /\ proc' = [p \in Pids |-> IF Signalled(ToForce, p)
                               THEN [proc[p] EXCEPT !.forced = TRUE]
                               ELSE proc[p]]
    /\ UNCHANGED <<tables, y>>

\* The slots behind the freed one move up, so the next one is at index y now
\* and the loop, which goes on with y + 1, passes over it in this cycle.
free_module_and_shift_array ==
    /\ slots' = SubSeq(slots, 1, y - 1) \o SubSeq(slots, y + 1, Len(slots))
    /\ running_modules' = [running_modules EXCEPT ![slots[y]] = EmptySlot]

\* Mutant: the module is handed back at once, its restart forgotten.
ServedAtOnce(r) == [r EXCEPT !.served = TRUE]

\* The serving loop's body, for one slot.
Served(r) ==
    IF r.served \/ r.remove_module THEN r
    ELSE IF ~r.init_module THEN [r EXCEPT !.served = TRUE]
    ELSE IF r.module_status THEN r      \* only leaves the service interface
    ELSE [r EXCEPT !.module_enabled = TRUE, !.restart_cnt = -1,
                   !.init_module = FALSE, !.served = TRUE]

\* Mutant: the slot is freed without waiting for the process to end.
RemovableAtOnce(r) == ~r.served /\ r.remove_module

\* Mutant: only a module that was served can be removed.
RemovableServed(r) == r.served /\ r.remove_module /\ ~r.module_status

Removable(r) == ~r.served /\ r.remove_module /\ ~r.module_status

ServeModule ==
    /\ pc = "serve" /\ y <= Len(slots)
    /\ y' = y + 1
    /\ IF Removable(running_modules[slots[y]])
       THEN free_module_and_shift_array
       ELSE /\ running_modules' = [running_modules EXCEPT ![slots[y]] = Served(@)]
            /\ UNCHANGED slots
    /\ UNCHANGED <<pc, array_size, prepared, profile_enabled, restarts_config,
                   config, proc>>

ServeDone ==
    /\ Go("serve", "report") /\ y > Len(slots)
    /\ y' = 1
    /\ UNCHANGED <<tables, running_modules, proc>>

ServiceStep ==
    \/ Go("idle", "update") /\ service_check_modules_status
    \/ Go("update", "sigint") /\ service_update_modules_status
    \/ Go("sigint", "clean") /\ service_stop_modules_sigint
    \/ Go("clean", "check") /\ service_clean_after_children
    \/ Go("check", "sigkill") /\ service_check_modules_status
    \/ Go("sigkill", "cleanagain") /\ service_stop_modules_sigkill
    \/ Go("cleanagain", "serve") /\ service_clean_after_children
    \/ ServeModule
    \/ ServeDone
    \/ Go("report", "receive") /\ service_check_modules_status
    \/ Go("receive", "idle") /\ service_check_modules_status

-----------------------------------------------------------------------------
(* The operator's commands; each holds the lock from its prompt to its end. *)

MayCommand == pc = "idle"

interactive_set_enabled(m) ==
    /\ MayCommand
    /\ m \in Loaded /\ ~running_modules[m].module_enabled
    /\ Update({m}, LAMBDA r : [r EXCEPT !.module_enabled = TRUE,
                                       !.restart_cnt = -1])
    /\ UNCHANGED <<pc, y, tables, proc>>

interactive_set_disabled(m) ==
    /\ MayCommand
    /\ m \in Loaded /\ running_modules[m].module_enabled
    /\ ~running_modules[m].module_root_perm_needed
    /\ Update({m}, LAMBDA r : [r EXCEPT !.module_enabled = FALSE])
    /\ UNCHANGED <<pc, y, tables, proc>>

\* The numbers behind the modules in both menus select a profile.
SetProfile(f) ==
    /\ MayCommand
    /\ profile_enabled' = [profile_enabled EXCEPT ![f] = ~@]
    /\ UNCHANGED <<pc, y, slots, array_size, prepared, running_modules,
                   restarts_config, config, proc>>

interactive_restart_module(m) ==
    /\ MayCommand
    /\ m \in Loaded
    /\ running_modules[m].module_enabled /\ running_modules[m].module_status
    /\ ~running_modules[m].module_root_perm_needed
    /\ Update({m}, LAMBDA r : [r EXCEPT !.served = FALSE,
                                       !.module_enabled = FALSE,
                                       !.init_module = TRUE])
    /\ UNCHANGED <<pc, y, tables, proc>>

-----------------------------------------------------------------------------
(* reload_configuration: under the lock from here to ReloadEnd.  A          *)
(* configuration that does not validate changes nothing and is not shown.   *)

\* The reset loop over every allocated slot.
Reset(r) == [r EXCEPT !.profile = NoProfile, !.max_restarts = -1,
                      !.module_is_my_child = TRUE,
                      !.module_root_perm_needed = FALSE,
                      !.init_module = FALSE, !.remove_module = FALSE]

\* Profiles and the common limit are read anew.
ReloadBegin(c) ==
    /\ MayCommand
    /\ pc' = "reload" /\ y' = 1
    /\ config' = c
    /\ prepared' = array_size
    /\ profile_enabled' = c.profiles
    /\ restarts_config' = IF c.restarts = -1 THEN restarts_config ELSE c.restarts
    /\ running_modules' = [m \in Modules |-> Reset(running_modules[m])]
    /\ UNCHANGED <<slots, array_size, proc>>

\* A slot that check_running_modules_allocated_memory adds while a reload is
\* running is zeroed, but the reset loop has not seen it.
GrownSlot == [EmptySlot EXCEPT !.max_restarts = 0, !.module_is_my_child = FALSE]

check_running_modules_allocated_memory ==
    array_size' = IF Len(slots) = array_size THEN array_size + array_size \div 2
                                             ELSE array_size

\* reload_resolve_module_enabled: the counter restarts with an enabled module.
ResolvedCnt(r, e, new) ==
    IF e.module_enabled /\ (new \/ ~r.module_enabled) THEN -1 ELSE r.restart_cnt

\* Only an element that is there is compared with the loaded value.
MergedParams(r, e) ==
    IF e.module_params = Absent THEN r.module_params ELSE e.module_params

\* Mutant: a change of the parameters does not restart the module.
MergedQuietly(r, e, new) ==
    [r EXCEPT !.module_enabled = e.module_enabled,
              !.restart_cnt = ResolvedCnt(r, e, new),
              !.max_restarts = IF e.max_restarts = -1 THEN @ ELSE e.max_restarts,
              !.module_params = MergedParams(r, e),
              !.profile = e.profile]

\* Mutant: the limit of a known module is not read again.
MergedOldLimit(r, e, new) ==
    [MergedQuietly(r, e, new) EXCEPT
        !.max_restarts = IF new /\ e.max_restarts # -1 THEN e.max_restarts
                                                       ELSE r.max_restarts]

\* A modified module that runs, or ran, is marked for a restart.
Merged(r, e, new) ==
    LET modified == ~new /\ MergedParams(r, e) # r.module_params
        restart == modified /\ r.module_running
    IN  [r EXCEPT !.module_enabled = e.module_enabled /\ ~restart,
                  !.init_module = e.module_enabled /\ restart,
                  !.module_running = @ /\ ~modified,
                  !.restart_cnt = ResolvedCnt(r, e, new),
                  !.max_restarts = IF e.max_restarts = -1 THEN @ ELSE e.max_restarts,
                  !.module_params = MergedParams(r, e),
                  !.profile = e.profile]

\* The module_pid attribute is read by the first load only.
BackupPid(e) == IF pc = "load" THEN e.module_pid ELSE NoPid

\* Mutant: the attribute is not read, so the module is started once more.
AdoptedNever(r, pid) == r

Adopted(r, pid) ==
    IF pid \in Pids THEN [init_module_variables(r) EXCEPT !.module_pid = pid]
    ELSE IF pid = NoPid THEN r
    ELSE [r EXCEPT !.module_pid = pid]

ReloadModule ==
    /\ pc \in {"load", "reload"} /\ y <= Len(config.modules)
    /\ check_running_modules_allocated_memory
    /\ LET e == config.modules[y]
           m == e.name
           new == m \notin Loaded
           r == IF ~new THEN running_modules[m]
                ELSE IF Len(slots) >= prepared THEN GrownSlot ELSE EmptySlot
       IN  /\ slots' = IF new THEN Append(slots, m) ELSE slots
           /\ running_modules' = [running_modules EXCEPT
                 ![m] = Adopted(Merged(r, e, new), BackupPid(e))]
    /\ y' = y + 1
    /\ UNCHANGED <<pc, prepared, profile_enabled, restarts_config, config, proc>>

\* Nothing is kept of a document once it has been loaded.
NoDocument == [modules |-> <<>>, profiles |-> [f \in Profiles |-> FALSE],
               restarts |-> -1]

\* Modules the configuration does not name are disabled and marked; every
\* module is handed to the service thread.
ReloadEnd ==
    /\ pc \in {"load", "reload"} /\ y > Len(config.modules)
    /\ pc' = "idle" /\ y' = 1
    /\ running_modules' = [m \in Modules |->
          LET r == running_modules[m]
          IN  IF m \notin Loaded THEN r
              ELSE IF m \in Names(config) THEN [r EXCEPT !.served = FALSE]
              ELSE [r EXCEPT !.served = FALSE, !.module_enabled = FALSE,
                             !.remove_module = TRUE]]
    /\ config' = NoDocument
    /\ UNCHANGED <<slots, array_size, prepared, profile_enabled, restarts_config,
                   proc>>

-----------------------------------------------------------------------------
(* Processes, the whole system. *)

\* A process may end at any time.  A child becomes a zombie.
Exit(p) ==
    /\ Alive(p)
    /\ proc' = [proc EXCEPT ![p] = Ended(@)]
    /\ UNCHANGED <<pc, y, tables, running_modules>>

\* The parameters a module ends up with when it is inserted.
ElementParams(e) == IF e.module_params = Absent THEN NoParams ELSE e.module_params

\* A backup file records where the processes are, but no limits.
BackupOf(c, pid) ==
    [c EXCEPT !.restarts = -1,
              !.modules = [i \in DOMAIN c.modules |->
                  [c.modules[i] EXCEPT !.max_restarts = -1, !.module_pid = pid[i]]]]

(***************************************************************************)
(* The supervisor starts with an empty table and its first load ahead.     *)
(* The configuration may be the backup of an earlier supervisor: then some *)
(* of its modules still have a process, which is not a child of this one,  *)
(* or had one that ended in the meantime.                                  *)
(***************************************************************************)
StartsWith(c) ==
    /\ pc = "load" /\ y = 1
    /\ slots = <<>>
    /\ array_size = ArrayStart /\ prepared = ArrayStart
    /\ running_modules = [m \in Modules |-> EmptySlot]
    /\ config = c
    /\ profile_enabled = c.profiles
    /\ restarts_config = IF c.restarts = -1 THEN DefaultLimit ELSE c.restarts

Init ==
    \/ /\ \E c \in Configs : StartsWith(c)
       /\ proc = [p \in Pids |-> FreeProcess]
    \/ \E c \in Configs :
       \E pid \in [DOMAIN c.modules -> Pids \cup {NoPid}],
          ended \in SUBSET DOMAIN c.modules :
         /\ \A i, j \in DOMAIN pid : pid[i] = pid[j] => i = j \/ pid[i] = NoPid
         /\ StartsWith(BackupOf(c, pid))
         /\ proc = [p \in Pids |->
              IF \E i \in DOMAIN pid : pid[i] = p
              THEN LET i == CHOOSE i \in DOMAIN pid : pid[i] = p
                       e == c.modules[i]
                       q == ProcessOf(e.name, ElementParams(e), FALSE)
                   IN  IF i \in ended THEN Ended(q) ELSE q
              ELSE FreeProcess]

Command ==
    \/ \E m \in Modules : \/ interactive_set_enabled(m)
                          \/ interactive_set_disabled(m)
                          \/ interactive_restart_module(m)
    \/ \E f \in Profiles : SetProfile(f)
    \/ \E c \in Configs : ReloadBegin(c)

Reload == ReloadModule \/ ReloadEnd

Next == ServiceStep \/ Command \/ Reload \/ \E p \in Pids : Exit(p)

Spec == Init /\ [][Next]_vars

-----------------------------------------------------------------------------
(* Properties. *)

\* "ended": the service thread has left its loop (see Shutdown).
Places == {"load", "reload", "idle", "update", "sigint", "clean", "check",
           "sigkill", "cleanagain", "serve", "report", "receive", "ended"}

TypeOK ==
    /\ pc \in Places
    /\ y \in Nat \ {0}
    /\ slots \in Seq(Modules)
    /\ array_size \in Nat /\ prepared \in Nat
    /\ running_modules \in [Modules -> ModuleRecord]
    /\ profile_enabled \in [Profiles -> BOOLEAN]
    /\ restarts_config \in Nat
    /\ config \in Configuration
    /\ proc \in [Pids -> Process]

(***************************************************************************)
(* No process is lost and no module runs twice: every process that exists, *)
(* zombies included, is the one its module's slot records.  A slot must    *)
(* not be reused or freed while its process is there.                      *)
(***************************************************************************)
EveryProcessRecorded ==
    pc # "load" =>
        \A p \in Pids : Exists(p) => running_modules[proc[p].mod].module_pid = p

(***************************************************************************)
(* A signal for the group of a recorded process only ever reaches the      *)
(* process started for that module: when kill is called the identifier is  *)
(* positive, and it has not been handed to another module meanwhile.       *)
(***************************************************************************)
SignalsHitOwnModule ==
    /\ pc = "sigint" => \A m \in ToAsk :
          LET p == running_modules[m].module_pid IN p \in Pids /\ proc[p].mod = m
    /\ pc = "sigkill" => \A m \in ToForce :
          LET p == running_modules[m].module_pid IN p \in Pids /\ proc[p].mod = m

(***************************************************************************)
(* README: "SIGINT is used to stop the module. If it keeps running,        *)
(* SIGKILL must be used."  No process is killed that was not asked first.  *)
(***************************************************************************)
AskedBeforeForced == \A p \in Pids : Alive(p) /\ proc[p].forced => proc[p].asked

(***************************************************************************)
(* configs/config_example.xml on <module-restarts>: "OPTIONAL element,     *)
(* default value: 3".  When a document has been read every module has the  *)
(* limit of its element, and none (so that the default applies) if there   *)
(* is no element.                                                          *)
(***************************************************************************)
LimitsAsConfigured ==
    pc \in {"load", "reload"} /\ y > Len(config.modules) =>
        \A i \in DOMAIN config.modules :
            LET e == config.modules[i]
            IN  running_modules[e.name].max_restarts = e.max_restarts

HasProcess(m) == \E p \in Pids : Exists(p) /\ proc[p].mod = m

(***************************************************************************)
(* README: "Once the module is set to enabled, supervisor will             *)
(* automatically start it. If the module stops but is still enabled [...]  *)
(* supervisor will restart it."                                            *)
(***************************************************************************)
Wanted(m) == /\ m \in Loaded
             /\ running_modules[m].module_enabled
             /\ ProfileEnabled(running_modules[m])

EnabledRuns ==
    \A m \in Modules :
        Wanted(m) ~> ~Wanted(m) \/ \E p \in Pids : Alive(p) /\ proc[p].mod = m

(***************************************************************************)
(* The abstract promise about processes (ProcessLifecycle).                *)
(***************************************************************************)
StageOf(m) ==
    LET own == {p \in Pids : Alive(p) /\ proc[p].mod = m}
    IN  IF own = {} THEN "down"
        ELSE IF \E p, q \in own : p # q THEN "twice"
        ELSE IF \E p \in own : proc[p].forced THEN "forced"
        ELSE IF \E p \in own : proc[p].asked THEN "asked"
        ELSE "up"

Stage == [m \in Modules |-> StageOf(m)]

Lifecycle == INSTANCE ProcessLifecycle WITH stage <- Stage

ImplementsLifecycle == Lifecycle!Spec
=============================================================================
