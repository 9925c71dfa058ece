\* The same instance, asking whether a dropped trial can leave the breaker half-open.
SPECIFICATION Spec
CONSTANTS
    Ops = {o1, o2, p}
    Abortable = {p}
    FailureThreshold = 2
    Cooldown = 2
    MaxCount = 5
INVARIANTS NeverStranded
