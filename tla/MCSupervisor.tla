--------------------------- MODULE MCSupervisor ---------------------------
(* Instances of Supervisor for TLC. *)
EXTENDS Supervisor

CONSTANTS a, b, c, prof, p1, p2

Element(m, enabled, params, limit) ==
    [name |-> m, module_enabled |-> enabled, module_params |-> params,
     profile |-> prof, max_restarts |-> limit, module_pid |-> NoPid]

Config(elements, on, limit) ==
    [modules |-> elements, profiles |-> [f \in Profiles |-> on],
     restarts |-> limit]

\* Both modules; one of them removed and the other changed.
TwoConfigs ==
    {Config(<<Element(a, TRUE, p1, -1), Element(b, TRUE, p1, -1)>>, TRUE, -1),
     Config(<<Element(b, TRUE, p2, -1)>>, TRUE, -1)}

\* A reload that adds a third module to a table of two.
GrowthConfigs ==
    {Config(<<Element(a, FALSE, p1, -1)>>, TRUE, -1),
     Config(<<Element(a, FALSE, p1, -1), Element(b, FALSE, p1, -1),
              Element(c, FALSE, p1, -1)>>, TRUE, -1)}
=============================================================================
