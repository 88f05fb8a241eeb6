--------------------------- MODULE InteractiveMode ---------------------------
(***************************************************************************)
(* The supervisor in the foreground: the main thread shows the menu, asks  *)
(* its questions with running_modules_lock held, and runs the handler of   *)
(* the signals that terminate the program, wherever it is at that moment.  *)
(* The lock is not recursive.                                              *)
(***************************************************************************)
EXTENDS Naturals

VARIABLES main,      \* where the main thread is in interactive_mode
          handler,   \* where it is in supervisor_termination; "none": not yet
          stop_all,  \* service_stop_all_modules
          service,   \* the service thread: "sleeps", "serves" or "ended"
          lock       \* who holds running_modules_lock

mvars == <<main, handler, stop_all, service, lock>>

InteractiveInit ==
    /\ main = "menu" /\ handler = "none" /\ stop_all = FALSE
    /\ service = "sleeps" /\ lock = "free"

-----------------------------------------------------------------------------
(* The main thread; a handler is on top of it until it returns, and this    *)
(* one never does.                                                          *)

Uninterrupted == handler = "none"

\* The options 1, 2 and 3 want the lock; 7 as well, it asks nothing.
ChooseCommand ==
    /\ Uninterrupted /\ main = "menu"
    /\ main' \in {"command", "reload"}
    /\ UNCHANGED <<handler, stop_all, service, lock>>

\* The modules to choose from are printed, if there are any.
Ask ==
    /\ Uninterrupted /\ main = "command" /\ lock = "free"
    /\ \/ main' = "question" /\ lock' = "main"
       \/ main' = "menu" /\ UNCHANGED lock
    /\ UNCHANGED <<handler, stop_all, service>>

Answer ==
    /\ Uninterrupted /\ main = "question"
    /\ main' = "menu" /\ lock' = "free"
    /\ UNCHANGED <<handler, stop_all, service>>

ReloadNow ==
    /\ Uninterrupted /\ main = "reload" /\ lock = "free"
    /\ main' = "menu"
    /\ UNCHANGED <<handler, stop_all, service, lock>>

\* Option 0: the loop ends and main calls supervisor_termination(FALSE, FALSE).
StopSupervisor ==
    /\ Uninterrupted /\ main = "menu"
    /\ main' = "left" /\ handler' = "joining"
    /\ UNCHANGED <<stop_all, service, lock>>

-----------------------------------------------------------------------------
(* The handler.                                                            *)

sup_sig_handler ==
    /\ Uninterrupted
    /\ \/ handler' = "stopping" /\ stop_all' = TRUE    \* SIGTERM
       \/ handler' = "joining" /\ stop_all' = FALSE    \* SIGINT, SIGQUIT
    /\ UNCHANGED <<main, service, lock>>

\* Waits for the lock, even for one that this thread holds.
interactive_stop_configuration ==
    /\ handler = "stopping" /\ lock = "free"
    /\ handler' = "joining"
    /\ UNCHANGED <<main, stop_all, service, lock>>

\* pthread_join has returned: backup, release of the memory, exit.
Finish ==
    /\ handler = "joining" /\ service = "ended"
    /\ handler' = "over"
    /\ UNCHANGED <<main, stop_all, service, lock>>

-----------------------------------------------------------------------------
(* The service thread.                                                     *)

BeginCycle ==
    /\ service = "sleeps" /\ lock = "free"
    /\ service' = "serves" /\ lock' = "service"
    /\ UNCHANGED <<main, handler, stop_all>>

\* Once service_thread_continue is FALSE the thread leaves its loop, at once or
\* when the modules are down; it does not give the lock back then.
EndCycle ==
    /\ service = "serves"
    /\ \/ service' = "sleeps" /\ lock' = "free" /\ (handler = "joining" => stop_all)
       \/ service' = "ended" /\ handler = "joining" /\ UNCHANGED lock
    /\ UNCHANGED <<main, handler, stop_all>>

InteractiveNext ==
    \/ ChooseCommand \/ Ask \/ Answer \/ ReloadNow \/ StopSupervisor
    \/ sup_sig_handler \/ interactive_stop_configuration \/ Finish
    \/ BeginCycle \/ EndCycle

(***************************************************************************)
(* Both threads run, and get a lock that is free again and again; the      *)
(* modules that are to be stopped do stop (Supervisor, DisabledStops), so  *)
(* the service thread does leave.  No fairness for the operator.           *)
(***************************************************************************)
InteractiveFairness ==
    /\ SF_mvars(Ask) /\ SF_mvars(ReloadNow)
    /\ SF_mvars(interactive_stop_configuration) /\ WF_mvars(Finish)
    /\ SF_mvars(BeginCycle) /\ WF_mvars(EndCycle)
    /\ SF_mvars(EndCycle /\ service' = "ended")

InteractiveSpec ==
    InteractiveInit /\ [][InteractiveNext]_mvars /\ InteractiveFairness

(***************************************************************************)
(* README on signals: "SIGTERM - stops all running modules, does not       *)
(* generate backup file", "SIGINT - it let the modules continue running    *)
(* and generates backup file".  A signal ends the supervisor, wherever the *)
(* main thread was when it came (sup_sig_handler).                         *)
(***************************************************************************)
SignalTerminates == (handler # "none") ~> (handler = "over")
=============================================================================
