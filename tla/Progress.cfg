\* Each part's bounds are in the module: the smallest at which it can be held up.
SPECIFICATION Spec
PROPERTIES WaitsEnd
\* Tunnels, mounts and calls end.
CHECK_DEADLOCK FALSE
