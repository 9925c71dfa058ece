\* One handle, one write: a close that fails, and the next one.
SPECIFICATION Spec
CONSTANTS
    Fh = {f1}
    Path = {a}
    Task = {t1, t2}
    Unmounter = u
    None = None
    MaxTransfers = 1
    MaxHashes = 1
    MaxWrites = 1
PROPERTIES DirtyUntilLanded
CHECK_DEADLOCK FALSE
