\* Two scheduled times and no more, a list of two people or a group, two runners
\* and a mailer.
SPECIFICATION FairSpec
CONSTANTS
    u1 = u1
    u2 = u2
    r1 = r1
    r2 = r2
    p1 = p1
    p2 = p2
    Slots = 2
    Ends = TRUE
    Users <- TwoUsers
    Leavers <- FirstUser
    Owner = u1
    NoMail = NoMail
    Grouped = {1, 2}
    Listed = {1, 2}
    Recipients <- TwoUsers
    Runners <- TwoRunners
    Mailers <- TwoMailers
    MaxTries = 2
    MaxAttempts = 2
    MaxFaults = 1
CHECK_DEADLOCK FALSE
INVARIANT OutcomesAreTrue
INVARIANT RepeatsHaveACause
PROPERTY EverythingIsSettled
