\* Safety and recovery of the breaker: two routes, three attempts in flight.
SPECIFICATION FairSpec
CONSTANTS
    FailureThreshold = 2
    Recovery = 2
    Routes = {r1, r2}
    Attempts = {a1, a2, a3}
    Idle = Idle
\* Time may pass with nothing left to count: Tick is always enabled.
CHECK_DEADLOCK TRUE
INVARIANTS TypeOK CircuitsConsistent OneProbePerEpisode OneCurrentProbe
PROPERTIES AdmissionIsRested OrphanIsForever RecoversOrOrphaned
