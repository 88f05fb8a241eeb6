---------------------------- MODULE MCStatusInfo ----------------------------
(* An instance of StatusInfo for TLC. *)
EXTENDS StatusInfo

CONSTANTS a, prof, p1

\* One module that is enabled.
EnabledConfig ==
    {[modules |-> <<[name |-> a, module_enabled |-> TRUE, module_params |-> p1,
                     profile |-> prof, max_restarts |-> -1, module_pid |-> NoPid]>>,
      profiles |-> [f \in Profiles |-> TRUE],
      restarts |-> -1]}
=============================================================================
