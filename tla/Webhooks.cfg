\* One webhook, two server replicas, two actions sent in one batch.
SPECIFICATION FairSpec
CONSTANTS
    h1 = h1
    d1 = d1
    d2 = d2
    Hooks <- OneHook
    Dispatchers <- TwoDispatchers
    NoHook = NoHook
    MaxSeq = 2
    Batch = 2
    MaxAttempts = 2
    MaxFaults = 1
INVARIANT ClaimInv
INVARIANT OutcomesAreTrue
INVARIANT RepeatsHaveACause
PROPERTY EveryEventIsSettled
