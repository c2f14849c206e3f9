\* Two work items, one replica, pages of two actions.
SPECIFICATION FairSpec
CONSTANTS
    i1 = i1
    i2 = i2
    u1 = u1
    Issues <- TwoIssues
    Users <- OneUser
    Nobody = Nobody
    Seed = Seed
    MaxSeq = 3
    Limit = 2
INVARIANT ReplicaInv
INVARIANT QuietReplicaIsAuthorised
PROPERTY EveryoneCatchesUp
PROPERTY SuspensionPurges
