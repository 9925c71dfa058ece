\* One callback, a rmdir among them, is enough.
SPECIFICATION Spec
CONSTANTS
    Paths <- MCPaths
    Longer <- MCLonger
    Things <- MCThings
    Threads = {t1}
    MaxJobs = 1
PROPERTIES SweepsOnlyUnder
\* Callbacks end.
CHECK_DEADLOCK FALSE
