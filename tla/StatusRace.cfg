CONSTANTS
    a = a  prof = prof  p1 = p1
    Modules = {a}
    Profiles = {prof}
    NoProfile = NoProfile
    Params = {p1}
    NoParams = NoParams
    Absent = Absent
    Pids = {q1, q2}
    NoPid = NoPid
    ForkFailed = ForkFailed
    Periods = 2
    Limits = {1}
    DefaultLimit = 1
    ArrayStart = 10
    Configs <- EnabledConfig
    Privileged = {}
SPECIFICATION StatusSpec
PROPERTIES EnabledRuns
