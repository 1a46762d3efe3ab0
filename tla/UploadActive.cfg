\* Shutdown while an upload is in progress.
CONSTANTS
    Fd = {u1, u2}
    NoFd = NoFd
    NWorkers = 1
    QMax = 1
    QueueMax = 2
SPECIFICATION UpSpec
INVARIANT ActiveUploadsShut
