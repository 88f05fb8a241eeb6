CONSTANTS
    a = a  prof = prof  p1 = p1
    Modules = {a}
    Profiles = {prof}
    NoProfile = NoProfile
    Params = {p1}
    NoParams = NoParams
    Absent = Absent
    Pids = {q1, q2}
    NoPid = NoPid
    ForkFailed = ForkFailed
    Periods = 2
    Limits = {1}
    DefaultLimit = 1
    ArrayStart = 10
    Configs <- IfcConfigs
    Privileged = {}
    Fds = {0, 1}
    MaxTry = 1
    MaxChunks = 2
    NotJson = NotJson
    Documents <- IfcDocuments
SPECIFICATION IfcFairSpec
INVARIANTS IfcTypeOK OwnSockets InStep ArraysMatchCounts
PROPERTIES LockReleased InterfaceConnects
