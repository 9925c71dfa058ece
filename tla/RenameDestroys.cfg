\* One callback, a rename among them, is enough.
SPECIFICATION Spec
CONSTANTS
    Paths <- MCPaths
    Longer <- MCLonger
    Things <- MCThings
    Threads = {t1}
    MaxJobs = 1
INVARIANTS RenameReplaces
\* Callbacks end.
CHECK_DEADLOCK FALSE
