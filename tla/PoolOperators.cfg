\* Two operators with one slot each: balancing, failed starts and teardown.
CONSTANTS
    Fd = {c1, c2}
    NoFd = NoFd
    OperatorsCount = 2
    MaxClients = 1
    RingCapacity = 1
    UINT_MAX = 15
    BlindLimit = 0
SPECIFICATION Spec
SYMMETRY FdSymmetry
INVARIANTS TypeOK LoadNeverWraps FdHeldOnce DestroyedAfterExit DispatcherGoneFirst
