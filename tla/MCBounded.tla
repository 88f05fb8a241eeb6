----------------------------- MODULE MCBounded -----------------------------
(* Shutdown with a bounded number of commands and signals, for several     *)
(* modules.                                                                *)
EXTENDS MCSupervisor, Shutdown, TLC

CONSTANT MaxOrders   \* how many commands and signals the operator gives

VARIABLE orders

mcvars == <<allvars, orders>>

MCInit == ShutdownInit /\ orders = 0

MCNext ==
    /\ \/ Ordered /\ orders < MaxOrders /\ orders' = orders + 1
       \/ Unordered /\ UNCHANGED orders
    /\ Remember

MCSpec == MCInit /\ [][MCNext]_mcvars

PidSymmetry == Permutations(Pids)
=============================================================================
