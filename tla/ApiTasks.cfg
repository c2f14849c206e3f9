\* Two tasks over two items, two replicas, one fault; one bulk operation may be
\* active.
SPECIFICATION FairSpec
CONSTANTS
    t1 = t1
    t2 = t2
    w1 = w1
    w2 = w2
    Tasks <- TwoTasks
    NoTask = NoTask
    Workers <- TwoWorkers
    ItemCount = 2
    PartsOf <- TwoThenOne
    KindsOf <- AnyAndWatch
    Limit = 1
    MaxFaults = 1
CHECK_DEADLOCK FALSE
INVARIANT QueueInv
INVARIANT ResultsAreTrue
INVARIANT RepeatsNeedAnOverlap
PROPERTY EveryTaskEnds
