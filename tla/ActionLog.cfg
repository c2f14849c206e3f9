\* Two concurrent commands that draw up to four numbers between them, and one
\* reader with pages of two rows that keeps polling.
SPECIFICATION FairSpec
CONSTANTS
    t1 = t1
    t2 = t2
    r1 = r1
    fresh = fresh
    redacted = redacted
    Txs <- MCTxs
    Readers <- MCReaders
    Bodies <- MCBodies
    Redacted = redacted
    NoRow = NoRow
    NoTx = NoTx
    MaxSeq = 4
    Limit = 2
INVARIANT TypeOK
INVARIANT LogIsDense
INVARIANT NothingSkipped
PROPERTY SettledBelowHead
PROPERTY RefinesPrefixLog
PROPERTY EveryActionIsDelivered
