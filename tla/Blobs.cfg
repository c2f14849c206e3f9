\* Two files of two work items; requests and workers share two processes.
SPECIFICATION FairSpec
CONSTANTS
    b1 = b1
    b2 = b2
    i1 = i1
    i2 = i2
    p1 = p1
    p2 = p2
    Blobs <- TwoBlobs
    NoBlob = NoBlob
    Issues <- TwoIssues
    NoIssue = NoIssue
    Procs <- TwoProcs
    MaxFaults = 2
CHECK_DEADLOCK FALSE
INVARIANT IntentInv
INVARIANT RowsHaveBytes
INVARIANT EveryByteHasAnOwner
PROPERTY EveryIntentIsCarriedOut
