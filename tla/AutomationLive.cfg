\* Crashes, failures and old claims do not leave a run behind.
SPECIFICATION FairSpec
CONSTANTS
    a = a
    b = b
    w1 = w1
    w2 = w2
    Rules <- OneRule
    Chained <- OneRule
    Workers <- OneWorker
    User = User
    Nobody = Nobody
    NoRun = NoRun
    MaxSeq = 2
    Batch = 2
    FailureLimit = 2
PROPERTY QueuedRunsAreDone
