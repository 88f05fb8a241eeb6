-------------------------- MODULE ProcessLifecycle --------------------------
(***************************************************************************)
(* What the supervisor promises about the operating-system process of      *)
(* every module, with nothing of how it keeps the promise: there is never  *)
(* more than one process per module, a process may end at any time, and    *)
(* the supervisor asks (SIGINT) before it forces (SIGKILL).                *)
(***************************************************************************)
CONSTANT Modules

VARIABLE stage   \* what has happened to the process of each module

Stages == {"down", "up", "asked", "forced"}

Init == stage \in [Modules -> {"down", "up"}]

\* One cycle of the supervisor deals with all modules at once.
Move(from, to) ==
    \E S \in SUBSET {m \in Modules : stage[m] = from} :
        stage' = [m \in Modules |-> IF m \in S THEN to ELSE stage[m]]

Start == Move("down", "up")

Ask == Move("up", "asked")

Force == Move("asked", "forced")

Exit(m) == stage' = [stage EXCEPT ![m] = "down"]

Next == Start \/ Ask \/ Force \/ \E m \in Modules : Exit(m)

Spec == Init /\ [][Next]_stage

\* The supervisor loses track of processes: not in the promise, see Shutdown.
Abandon(S) == stage' = [m \in Modules |-> IF m \in S THEN "down" ELSE stage[m]]
=============================================================================
