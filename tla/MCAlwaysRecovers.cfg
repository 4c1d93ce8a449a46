SPECIFICATION FairSpec
CONSTANTS
    FailureThreshold = 2
    Recovery = 2
    Routes = {r1}
    Attempts = {a1, a2}
    Idle = Idle
CHECK_DEADLOCK FALSE
PROPERTY AlwaysRecovers
