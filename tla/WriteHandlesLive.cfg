\* One handle, two tasks and the unmount: liveness, so no symmetry.
SPECIFICATION FairSpec
CONSTANTS
    Fh = {f1}
    Path = {a}
    Task = {t1, t2}
    Unmounter = u
    None = None
    MaxTransfers = 1
    MaxHashes = 1
    MaxWrites = 1
PROPERTIES CloseAnswered UnmountEnds
\* A process that has logged out is gone.
CHECK_DEADLOCK FALSE
