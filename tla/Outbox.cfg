\* Two commands, one request lost or refused once written, one edit by
\* somebody else, texts with blanks around them.
SPECIFICATION FairSpec
CONSTANTS
    ann = ann
    bob = bob
    Accounts <- OnePerson
    NoAccount = NoAccount
    Other = Other
    NoRequest = NoRequest
    Blanks = {TRUE}
    MaxCommands = 2
    MaxLosses = 1
    MaxOthers = 1
INVARIANT OutboxInv
INVARIANT DrainedFieldIsServers
PROPERTY PurgedNeverRuns
PROPERTY EveryCommandIsSettled
