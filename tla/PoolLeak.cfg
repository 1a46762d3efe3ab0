CONSTANTS
    Fd = {c1, c2, c3}
    NoFd = NoFd
    OperatorsCount = 1
    MaxClients = 2
    RingCapacity = 2
    UINT_MAX = 15
    BlindLimit = 0
SPECIFICATION Spec
INVARIANT NoFdLeak
