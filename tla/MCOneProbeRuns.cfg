SPECIFICATION Spec
CONSTANTS
    FailureThreshold = 2
    Recovery = 2
    Routes = {r1}
    Attempts = {a1, a2, a3}
    Idle = Idle
CHECK_DEADLOCK FALSE
INVARIANT OneProbeRuns
