----------------------------- MODULE MCShutdown -----------------------------
(* Instances of Shutdown for TLC. *)
EXTENDS Shutdown

CONSTANTS a, prof, p1, p2

Element(m, enabled, params, limit) ==
    [name |-> m, module_enabled |-> enabled, module_params |-> params,
     profile |-> prof, max_restarts |-> limit, module_pid |-> NoPid]

Config(elements) ==
    [modules |-> elements, profiles |-> [f \in Profiles |-> TRUE],
     restarts |-> -1]

\* The module with a limit of its own, with other parameters and without a
\* limit, and no module at all.
ShutdownConfigs ==
    {Config(<<Element(a, TRUE, p1, 1)>>), Config(<<Element(a, TRUE, p2, -1)>>),
     Config(<<>>)}
=============================================================================
