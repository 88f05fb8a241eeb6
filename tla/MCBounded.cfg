CONSTANTS
    a = a  b = b  c = c  prof = prof  p1 = p1  p2 = p2
    Modules = {a, b}
    Profiles = {prof}
    NoProfile = NoProfile
    Params = {p1, p2}
    NoParams = NoParams
    Absent = Absent
    Pids = {q1, q2}
    NoPid = NoPid
    ForkFailed = ForkFailed
    MaxOrders = 2
    NoBackup = NoBackup
    Periods = 2
    Limits = {0, 1}
    DefaultLimit = 1
    ArrayStart = 10
    Configs <- TwoConfigs
    Privileged = {b}
SPECIFICATION MCSpec
SYMMETRY PidSymmetry
INVARIANTS TypeOK EveryProcessRecorded SignalsHitOwnModule AskedBeforeForced
PROPERTIES KeepsLifecycle
