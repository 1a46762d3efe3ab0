\* One operator with two slots and a burst of four connections.
CONSTANTS
    Fd = {c1, c2, c3, c4}
    NoFd = NoFd
    OperatorsCount = 1
    MaxClients = 2
    RingCapacity = 2
    UINT_MAX = 15
    BlindLimit = 1
SPECIFICATION Spec
SYMMETRY FdSymmetry
INVARIANTS QueuedExact NoLostWakeup ActiveExact SlotForActive ShortTickWhileBusy
PROPERTY ImplementsHandoff
