----------------------------- MODULE StatusInfo -----------------------------
(***************************************************************************)
(* The command PRINT SUPERVISOR INFO beside the service thread.  To print  *)
(* the number of running modules it runs service_check_modules_status,     *)
(* which writes to the table, and it does so without running_modules_lock: *)
(* between kill() and the assignment that follows it the service thread    *)
(* may do anything.                                                        *)
(***************************************************************************)
EXTENDS Supervisor

VARIABLES index,   \* the slot the command is at; 0: no command under way
          found    \* what kill() said of it: "unknown", "exists", "none"

infovars == <<index, found>>

ivars == <<vars, infovars>>

StatusInit == Init /\ index = 0 /\ found = "unknown"

interactive_print_supervisor_info ==
    /\ index = 0 /\ pc # "load"
    /\ index' = 1
    /\ UNCHANGED <<vars, found>>

RecordedPid == running_modules[slots[index]].module_pid

Look ==
    /\ index \in DOMAIN slots /\ found = "unknown" /\ RecordedPid \in Pids
    /\ found' = IF Exists(RecordedPid) THEN "exists" ELSE "none"
    /\ UNCHANGED <<vars, index>>

\* The slot is written as it is now, not as it was looked at.
Write ==
    /\ index \in DOMAIN slots /\ found # "unknown"
    /\ LET m == slots[index]
       IN  Update({m}, LAMBDA r :
              IF found = "none"
              THEN [r EXCEPT !.module_status = FALSE, !.module_pid = NoPid]
              ELSE [r EXCEPT !.module_status = TRUE,
                             !.module_root_perm_needed = m \in Privileged])
    /\ index' = index + 1 /\ found' = "unknown"
    /\ UNCHANGED <<pc, y, tables, proc>>

\* A slot without a process, or the end of the table.
Skip ==
    /\ index > 0
    /\ IF index \in DOMAIN slots
       THEN found = "unknown" /\ RecordedPid \notin Pids /\ index' = index + 1
       ELSE index' = 0
    /\ found' = "unknown"
    /\ UNCHANGED vars

InfoStep == Look \/ Write \/ Skip

\* Everything asked for so far has taken effect: the operator waits for that.
Settled ==
    \A m \in Loaded : LET r == running_modules[m] IN
        /\ r.served /\ ~r.init_module /\ ~r.remove_module
        /\ ToBeStopped(r) => ~r.module_status

StatusNext ==
    \/ (ServiceStep \/ (Settled /\ Command) \/ Reload) /\ UNCHANGED infovars
    \/ \E p \in Pids : Exit(p) /\ UNCHANGED infovars
    \/ interactive_print_supervisor_info
    \/ InfoStep

(***************************************************************************)
(* The service thread and a reload in progress keep running (only a free   *)
(* lock is waited for), a process that was sent SIGKILL ends, and the      *)
(* command's thread runs to its end.                                       *)
(***************************************************************************)
StatusFairness ==
    /\ WF_ivars(ServiceStep /\ UNCHANGED infovars)
    /\ WF_ivars(Reload /\ UNCHANGED infovars)
    /\ \A p \in Pids : WF_ivars(proc[p].forced /\ Exit(p) /\ UNCHANGED infovars)
    /\ WF_ivars(InfoStep)

StatusSpec == StatusInit /\ [][StatusNext]_ivars /\ StatusFairness
=============================================================================
