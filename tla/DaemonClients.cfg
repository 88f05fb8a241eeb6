CONSTANTS
    MaxClients = 2
    Fds = {f1, f2, f3}
    NoFd = NoFd
SPECIFICATION FairSpec
INVARIANTS TypeOK AcceptFindsSlot ClientsCounted ConfigOutputOwned
PROPERTIES ClientsLeave
CHECK_DEADLOCK FALSE
