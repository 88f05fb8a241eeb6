---------------------------- MODULE MCServiceIfc ----------------------------
(* An instance of ServiceIfc for TLC. *)
EXTENDS ServiceIfc

CONSTANTS a, prof, p1

Config(elements) ==
    [modules |-> elements, profiles |-> [f \in Profiles |-> TRUE],
     restarts |-> -1]

\* The module, and no module at all.
IfcConfigs ==
    {Config(<<[name |-> a, module_enabled |-> TRUE, module_params |-> p1,
               profile |-> prof, max_restarts |-> -1, module_pid |-> NoPid]>>),
     Config(<<>>)}

Document(in_cnt, in, out_cnt, out) ==
    [in_cnt |-> in_cnt, in |-> in, out_cnt |-> out_cnt, out |-> out]

\* Complete; an output count that is missing; an input entry that is broken.
IfcDocuments ==
    {Document(1, <<TRUE>>, 1, <<TRUE>>),
     Document(0, <<>>, -1, <<>>),
     Document(1, <<FALSE>>, 0, <<>>)}
=============================================================================
