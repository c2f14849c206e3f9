\* Two requests at a time, two sprints of one board, three work items.
SPECIFICATION SpecPlanning
CONSTANTS
    i1 = i1
    i2 = i2
    i3 = i3
    s1 = s1
    s2 = s2
    m1 = m1
    m2 = m2
    Issues <- ThreeItems
    Sprints <- TwoSprints
    Movers <- TwoMovers
    NoIssue = NoIssue
    Backlog = Backlog
    ParallelSprints = FALSE
    MaxTx = 4
    K = 5
    U = 3
INVARIANT PlanInv
INVARIANT ReportIsTheSprint
INVARIANT SomebodyGoesOn
PROPERTY PlacedWhereAsked
SYMMETRY Relabelling
CHECK_DEADLOCK FALSE
