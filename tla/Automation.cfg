\* One rule, two workers, pages of two events.
SPECIFICATION Spec
CONSTANTS
    a = a
    b = b
    w1 = w1
    w2 = w2
    Rules <- OneRule
    Chained <- OneRule
    Workers <- TwoWorkers
    User = User
    Nobody = Nobody
    NoRun = NoRun
    MaxSeq = 3
    Batch = 2
    FailureLimit = 2
SYMMETRY Replicas
INVARIANT TypeOK
INVARIANT EventsBehindCursorHaveRuns
INVARIANT PromptWorkersDoNotOverlap
