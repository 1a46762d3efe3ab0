CONSTANTS
    Fd = {c1, c2}
    NoFd = NoFd
    OperatorsCount = 1
    MaxClients = 1
    RingCapacity = 2
    UINT_MAX = 15
    BlindLimit = 0
SPECIFICATION FairSpec
PROPERTIES QueuedClientTaken ShutdownDuringInitHonoured
