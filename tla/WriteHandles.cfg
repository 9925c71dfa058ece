\* Two handles on one path, two tasks and the unmount, one transfer permit and one
\* hash slot: everything waits on everything.  A move's other end is outside Path.
SPECIFICATION Spec
CONSTANTS
    Fh = {f1, f2}
    Path = {a}
    Task = {t1, t2}
    Unmounter = u
    None = None
    MaxTransfers = 1
    MaxHashes = 1
    MaxWrites = 1
SYMMETRY Symmetry
INVARIANTS WellFormed WaitersAreLed UnmountKeepsWrites
PROPERTIES CloseTruthful HashStartsQuiet
\* A process that has logged out is gone.
CHECK_DEADLOCK FALSE
