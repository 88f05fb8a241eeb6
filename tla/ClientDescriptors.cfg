CONSTANTS
    MaxClients = 2
    Fds = {f1, f2}
    NoFd = NoFd
SPECIFICATION Spec
INVARIANTS ConnectionStaysOpen
CHECK_DEADLOCK FALSE
