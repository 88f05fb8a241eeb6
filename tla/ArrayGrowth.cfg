CONSTANTS
    a = a  b = b  c = c  prof = prof  p1 = p1  p2 = p2
    Modules = {a, b, c}
    Profiles = {prof}
    NoProfile = NoProfile
    Params = {p1, p2}
    NoParams = NoParams
    Absent = Absent
    Pids = {q1}
    NoPid = NoPid
    ForkFailed = ForkFailed
    Periods = 3
    Limits = {0, 1}
    DefaultLimit = 1
    ArrayStart = 2
    Configs <- GrowthConfigs
    Privileged = {}
SPECIFICATION Spec
INVARIANTS LimitsAsConfigured
