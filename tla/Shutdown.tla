------------------------------ MODULE Shutdown ------------------------------
(***************************************************************************)
(* Termination of the supervisor and its next start: the signal handler,   *)
(* supervisor_termination, the way the service thread leaves its loop, the *)
(* backup file and the supervisor that is started afterwards and loads it. *)
(* The modules' processes live on from one supervisor to the next.         *)
(*                                                                         *)
(* This is the daemon: the main thread terminates while the threads of the *)
(* clients may still be giving commands.  One signal ends one supervisor:  *)
(* a second one, which would run the handler inside the first, is left out.*)
(***************************************************************************)
EXTENDS Supervisor

CONSTANT NoBackup   \* there is no backup file

ASSUME NoBackupAssumption == NoBackup \notin Configuration

VARIABLES phase,     \* where the main thread is in supervisor_termination
          stop_all,  \* service_stop_all_modules
          backup,    \* the backup file
          revived    \* history: modules switched on again before their process
                     \* had ended

termvars == <<phase, stop_all, backup>>

allvars == <<vars, termvars, revived>>

ShutdownInit ==
    /\ Init
    /\ phase = "up" /\ stop_all = FALSE
    /\ backup = NoBackup
    /\ revived = {}

-----------------------------------------------------------------------------
(* The main thread. *)

\* The handlers are installed after the first load; from then on a signal may
\* come at any time, in a cycle, in a reload or before a command took effect.
MayTerminate == phase = "up" /\ pc # "load"

\* SIGTERM: supervisor_termination(TRUE, FALSE)
Sigterm ==
    /\ MayTerminate
    /\ phase' = "stopping" /\ stop_all' = TRUE
    /\ UNCHANGED <<vars, backup>>

\* SIGINT, SIGQUIT, SIGSEGV: supervisor_termination(FALSE, TRUE).  The
\* command Dstop ends the server's loop and calls it with (FALSE, FALSE).
\* The second argument is not looked at before the end: see Finish.
Leave ==
    /\ MayTerminate
    /\ phase' = "joining" /\ stop_all' = FALSE
    /\ UNCHANGED <<vars, backup>>

\* Takes the lock, so it waits for the end of a cycle.
interactive_stop_configuration ==
    /\ phase = "stopping" /\ pc = "idle"
    /\ Update(Loaded, LAMBDA r : [r EXCEPT !.module_enabled = FALSE])
    /\ phase' = "joining"
    /\ UNCHANGED <<pc, y, tables, proc, stop_all, backup>>

\* The modules that are written: those with a profile.
Saved == {m \in Loaded : running_modules[m].profile # NoProfile}

\* The order of their elements: a profile's modules are written together, and
\* the order of the profiles is that of a list which is not modelled.
Orders(S) ==
    {s \in [1..Cardinality(S) -> S] :
        \A m \in S : \E i \in DOMAIN s : \A j \in DOMAIN s : s[j] = m <=> j = i}

\* No limit is written, and no element for parameters that are NULL.
SavedElement(m) ==
    LET r == running_modules[m]
    IN  [name |-> m,
         module_enabled |-> r.module_enabled,
         module_params |-> IF r.module_params = NoParams THEN Absent
                                                         ELSE r.module_params,
         profile |-> r.profile,
         max_restarts |-> -1,
         module_pid |-> r.module_pid]

generate_backup_config_file(order) ==
    [modules |-> [i \in DOMAIN order |-> SavedElement(order[i])],
     profiles |-> profile_enabled,
     restarts |-> -1]

\* Mutant: a backup is written on request only.
SaveRequested(requested) == requested

\* Without a request there is a backup all the same if some module is recorded
\* as running.
MustSave(requested) == requested \/ \E m \in Loaded : running_modules[m].module_status

\* The service thread has been joined.  SIGTERM does not request a backup.
Finish ==
    /\ phase = "joining" /\ pc = "ended"
    /\ phase' = "over"
    /\ \E requested \in IF stop_all THEN {FALSE} ELSE BOOLEAN :
          IF MustSave(requested)
          THEN \E order \in Orders(Saved) : backup' = generate_backup_config_file(order)
          ELSE UNCHANGED backup
    /\ UNCHANGED <<vars, stop_all>>

-----------------------------------------------------------------------------
(* The service thread once service_thread_continue is FALSE. *)

\* Mutant: module_pid is compared with 0 only, so a failed fork is counted.
CountedAnyPid == {m \in Loaded \ Privileged : running_modules[m].module_pid # NoPid}

\* What the count of the first status check says: a process that may not be
\* signalled is not waited for.
StillCounted ==
    {m \in Loaded \ Privileged : LET p == running_modules[m].module_pid
                                 IN  p \in Pids /\ Exists(p)}

\* Mutant: the loop is left as soon as every process has been asked to stop.
LoopEndsEarly == stop_all => \A m \in StillCounted : running_modules[m].sent_sigint

LoopEnds == stop_all => StillCounted = {}

CheckAndLeave ==
    /\ pc = "idle" /\ phase = "joining"
    /\ service_check_modules_status
    /\ pc' = IF LoopEnds THEN "ended" ELSE "update"
    /\ UNCHANGED termvars

ServiceThread ==
    \/ CheckAndLeave
    \/ ~(pc = "idle" /\ phase = "joining") /\ ServiceStep /\ UNCHANGED termvars

-----------------------------------------------------------------------------
(* The next supervisor. *)

\* Its predecessor's children are now the children of init, which reaps them.
\* A process the configuration does not name stays unknown to it.
Orphaned(p, known) ==
    LET q == proc[p]
        left == [q EXCEPT !.child = FALSE]
    IN  IF q.state \in {"free", "lost"} THEN q
        ELSE IF known THEN IF Alive(p) THEN left ELSE Ended(left)
        ELSE IF Alive(p) THEN [FreeProcess EXCEPT !.state = "lost"] ELSE FreeProcess

\* Loads the backup file and unlinks it; without one, the configuration.
NextSupervisor ==
    /\ phase = "over"
    /\ config' \in IF backup # NoBackup THEN {backup} ELSE Configs
    /\ pc' = "load" /\ y' = 1
    /\ slots' = <<>>
    /\ array_size' = ArrayStart /\ prepared' = ArrayStart
    /\ running_modules' = [m \in Modules |-> EmptySlot]
    /\ profile_enabled' = config'.profiles
    /\ restarts_config' = IF config'.restarts = -1 THEN DefaultLimit
                                                   ELSE config'.restarts
    /\ proc' = [p \in Pids |->
          Orphaned(p, \E i \in DOMAIN config'.modules : config'.modules[i].module_pid = p)]
    /\ backup' = NoBackup
    /\ phase' = "up"
    /\ stop_all' = FALSE

\* A client's thread looks at daemon_terminated between two commands only, so
\* commands may still be on their way when the termination has begun (in the
\* code at most one of every client).
ClientCommand == Command /\ UNCHANGED termvars

\* A process no supervisor knows of ends like any other.
LostExits(p) ==
    /\ proc[p].state = "lost"
    /\ proc' = [proc EXCEPT ![p] = FreeProcess]
    /\ UNCHANGED <<pc, y, tables, running_modules>>

\* What the operator decides.
Ordered == Sigterm \/ Leave \/ ClientCommand

\* What happens by itself.
Unordered ==
    \/ ServiceThread
    \/ interactive_stop_configuration \/ Finish \/ NextSupervisor
    \/ Reload /\ UNCHANGED termvars
    \/ \E p \in Pids : (Exit(p) \/ LostExits(p)) /\ UNCHANGED termvars

ShutdownStep == Ordered \/ Unordered

Runs(m) == \E p \in Pids : Alive(p) /\ proc[p].mod = m

\* By a command or by a reload.  The service thread has to wait for the process
\* to end, and the first load does not switch on, it says what was on.
SwitchedOn(m) == /\ pc \in {"idle", "reload"}
                 /\ ~running_modules[m].module_enabled
                 /\ running_modules'[m].module_enabled

Remember ==
    revived' = {m \in Modules : Runs(m)' /\ (m \in revived \/ SwitchedOn(m))}

ShutdownNext == ShutdownStep /\ Remember

ShutdownSpec == ShutdownInit /\ [][ShutdownNext]_allvars

(***************************************************************************)
(* The service thread waits for the lock in every cycle and is not kept    *)
(* from it for ever by operators who give one command after the other;     *)
(* neither is the main thread, because the service thread sleeps 1.5 s     *)
(* without the lock after every cycle.  A reload in progress is finished,  *)
(* and a process that was sent SIGKILL ends.                               *)
(***************************************************************************)
ShutdownFairness ==
    /\ SF_allvars(ServiceThread /\ Remember)
    /\ WF_allvars(Reload /\ UNCHANGED termvars /\ Remember)
    /\ \A p \in Pids :
          WF_allvars(proc[p].forced /\ Exit(p) /\ UNCHANGED termvars /\ Remember)
    /\ SF_allvars(interactive_stop_configuration /\ Remember)
    /\ WF_allvars(Finish /\ Remember)

FairShutdown == ShutdownSpec /\ ShutdownFairness

-----------------------------------------------------------------------------
(* Properties. *)

(***************************************************************************)
(* README: SIGTERM "stops all running modules [...] does not generate      *)
(* backup file".  When the supervisor is over after a SIGTERM, no process  *)
(* that it knew of and may signal is left, wherever the signal met it: the *)
(* service thread did not leave while one of them could still be started   *)
(* or was not yet dead.                                                    *)
(***************************************************************************)
SigtermLeavesNone ==
    phase = "over" /\ stop_all =>
        \A p \in Pids : Alive(p) => proc[p].mod \in Privileged

(***************************************************************************)
(* README: the supervisor "is able to terminate without stopping running   *)
(* modules and it will find them again after restart".  Whatever runs when *)
(* a supervisor is over is in the backup file, with its identifier and as  *)
(* a module of the configuration -- except a module that a reload removed  *)
(* and that had not ended yet: it has lost its profile, the file leaves it *)
(* out, and the next supervisor does not find it.                          *)
(***************************************************************************)
BackedUp(p) ==
    \E i \in DOMAIN backup.modules : /\ backup.modules[i].name = proc[p].mod
                                     /\ backup.modules[i].module_pid = p

RunningAreBackedUp ==
    phase = "over" =>
        \A p \in Pids : Alive(p) =>
            /\ backup # NoBackup
            /\ BackedUp(p) <=> ~running_modules[proc[p].mod].remove_module

(***************************************************************************)
(* README: a module that differs in the new configuration "is reloaded".   *)
(* An enabled module runs with the parameters of its slot, unless it was   *)
(* switched on again while the process that was to end was still there: by *)
(* the operator, or by a second reload before the restart that the first   *)
(* one asked for.  Nothing replaces the process then, and this outlives    *)
(* the supervisor.                                                         *)
(***************************************************************************)
RunsLoadedParams ==
    \A p \in Pids :
        LET m == proc[p].mod
        IN  /\ Alive(p) /\ pc \notin {"load", "reload"}
            /\ running_modules[m].module_enabled /\ m \notin revived
            => proc[p].args = running_modules[m].module_params

(***************************************************************************)
(* The promise of ProcessLifecycle, over the lives of several supervisors: *)
(* each takes over the processes that its predecessor left, but those of   *)
(* modules that were being removed.                                        *)
(***************************************************************************)
KeepsLifecycle ==
    /\ Lifecycle!Init
    /\ [][\/ Lifecycle!Next
          \/ /\ phase = "over"
             /\ Lifecycle!Abandon({m \in Modules : running_modules[m].remove_module})
         ]_Stage

(***************************************************************************)
(* pthread_join on the service thread returns.  It may not after SIGTERM   *)
(* if a module is switched on once all of them were disabled: by the       *)
(* serving loop, for a restart that was pending, or by the command of a    *)
(* client that had been let in before.                                     *)
(***************************************************************************)
OnAgain == /\ stop_all /\ phase = "joining"
           /\ \E m \in Loaded : running_modules[m].module_enabled

TerminationEnds == phase \in {"stopping", "joining"} ~> phase = "over" \/ OnAgain

(***************************************************************************)
(* While there is a supervisor: a module that is to be stopped, by its own *)
(* or by its profile's switch, loses its process, whether or not the       *)
(* process reacts to SIGINT.                                               *)
(***************************************************************************)
DisabledStops ==
    \A m \in Modules \ Privileged :
        m \in Loaded /\ ToBeStopped(running_modules[m])
            ~> \/ ~HasProcess(m) \/ ~ToBeStopped(running_modules[m])
               \/ phase # "up"

(***************************************************************************)
(* While there is a supervisor: a restart asked for by the operator or by  *)
(* a reload is completed.  The module is enabled again, or the restart was *)
(* taken back by another reload, and its old process is gone, unless the   *)
(* module was switched on before that.                                     *)
(***************************************************************************)
RestartPending(m) == /\ running_modules[m].init_module
                     /\ ~running_modules[m].module_enabled

RestartCompletes ==
    \A m \in Modules \ Privileged :
        RestartPending(m)
            ~> \/ /\ pc # "reload" /\ ~RestartPending(m)
                  /\ ~Runs(m) \/ m \in revived
               \/ phase # "up"

(***************************************************************************)
(* While there is a supervisor: a module the configuration no longer names *)
(* leaves the table, although freeing a slot makes the serving loop pass   *)
(* over the next one, unless it is switched on or named again.             *)
(***************************************************************************)
RemovedLeaves ==
    \A m \in Modules \ Privileged :
        running_modules[m].remove_module
            ~> \/ m \notin Loaded
               \/ pc # "reload" /\ ~running_modules[m].remove_module
               \/ m \in revived \/ phase # "up"

(***************************************************************************)
(* EnabledRuns of Supervisor, as far as there is a supervisor: README:     *)
(* "Once the module is set to enabled, supervisor will automatically start *)
(* it. If the module stops but is still enabled [...] supervisor will      *)
(* restart it."                                                            *)
(***************************************************************************)
EnabledRunsWhileUp ==
    \A m \in Modules :
        Wanted(m) /\ phase = "up" ~> ~Wanted(m) \/ phase # "up" \/ Runs(m)
=============================================================================
