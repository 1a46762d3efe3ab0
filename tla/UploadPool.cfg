\* Two workers, a queue of two in an array of three, three uploads: the queue fills, wraps and refuses.  A host
\* with two addresses and room for two listening sockets: binding fails in part, the array fills, refuses a
\* TCP upload port, and is overrun by a unix upload path.
CONSTANTS
    Fd = {u1, u2, u3}
    NoFd = NoFd
    NWorkers = 2
    QMax = 2
    QueueMax = 3
    Addrs = {a1, a2}
    MaxListeningSockets = 2
    Launches <- AllLaunches
SPECIFICATION ServerFairSpec
INVARIANTS UpTypeOK WorkConserving DestroyedQuiet ServerTypeOK IsolationMatches StoppedClean
PROPERTIES ImplementsQueue UploadLeavesQueue ShutdownCompletes SystemdKeepsFiles StopHonoured RunsThePool
