\* A request and a stream of a running canary, with their shadows.
SPECIFICATION StreamSpec
CONSTANTS
    FailureThreshold = 1
    Recovery = 1
    Routes = {b, k}
    Baseline = b
    Candidate = k
    NoRoute = none
    Online = {q1}
    Streams = {t1}
    Evals = {}
    CacheModes = {"default"}
    LiveStates = {"none", "candidate"}
    Pinned = {b}
    AdapterOf <- OpenAIAndOllama
INVARIANTS
    TypeOK
    StreamTypeOK
    FallbackAccounting
    EvidenceIsComplete
    EvidenceBeforeAssessment
    CacheLaneIsolation
    ForcedIsServedByItsRoute
    NoWorkAfterClose
    OneVoice
    ToldAsRecorded
CHECK_DEADLOCK FALSE
