CONSTANTS
    a = a  prof = prof  p1 = p1  p2 = p2
    Modules = {a}
    Profiles = {prof}
    NoProfile = NoProfile
    Params = {p1, p2}
    NoParams = NoParams
    Absent = Absent
    Pids = {q1}
    NoPid = NoPid
    ForkFailed = ForkFailed
    NoBackup = NoBackup
    Periods = 2
    Limits = {1}
    DefaultLimit = 1
    ArrayStart = 10
    Configs <- ShutdownConfigs
    Privileged = {}
SPECIFICATION FairShutdown
INVARIANTS SigtermLeavesNone RunningAreBackedUp RunsLoadedParams LimitsAsConfigured
PROPERTIES TerminationEnds DisabledStops RestartCompletes RemovedLeaves EnabledRunsWhileUp
